---- MODULE Spec2Model ----
(***************************************************************************)
(* A model of the cache, resolve, lock and install primitives of pex.     *)
(*                                                                         *)
(*  - pex/atomic_directory.py: the AtomicDirectory class and the           *)
(*    atomic_directory context manager, run by several processes against   *)
(*    one target_dir (specification Spec), and the same under fair         *)
(*    scheduling without spontaneous operating-system errors               *)
(*    (specification SpecFair).                                            *)
(*  - pex/resolver.py: the resolver's own AtomicDirectory (a uuid-suffixed *)
(*    work_dir, no lock) as used by the BuildResult / InstallResult slots  *)
(*    of concurrent resolves sharing one cache (specification SpecSlot).   *)
(*  - the work_dir path both classes derive from a target_dir path        *)
(*    (specification SpecPath).                                            *)
(*  - pex/resolver.py: ResolveRequest.resolve_distributions, the four      *)
(*    stages of one resolve and a repeated call on the same cache          *)
(*    (specification SpecPipe).                                            *)
(*  - pex/resolver.py: DistributionRequirements, the merge of the markers  *)
(*    and the final requirement of a distribution (specification SpecReq). *)
(*  - pex/cli/commands/lockfile/lockfile.py: _RankedLock.rank over one     *)
(*    locked resolve and one target (specification SpecRank), and          *)
(*    Lockfile.create and Lockfile.select over a list of locked resolves   *)
(*    and of targets (specification SpecLock).                             *)
(*  - pex/pep_427.py: install_wheel as install_wheel_chroot calls it       *)
(*    (specification SpecWheel).                                           *)
(*  - functions that keep no state, applied to arguments drawn in InitFun: *)
(*    resolve_options.configure, common.deterministic_datetime, the        *)
(*    targets of resolver.resolve_multi, the slot paths of BuildResult and *)
(*    InstallResult, and atomic_directory run by one process on an empty   *)
(*    disk with the paths it works on (specification SpecFun).             *)
(*  - pex/common.py: Chroot and its copy, link, write and touch            *)
(*    (specification SpecChroot).                                          *)
(*                                                                         *)
(* A directory is a record [exists, files]; a file is a pair <<p, k>>: the *)
(* k-th file written by process p.                                         *)
(***************************************************************************)
EXTENDS FiniteSets, Integers, Sequences, TLC

\* ------------------------------------------------------------------------
\* Bounds
\* ------------------------------------------------------------------------
NumProcs == 2
NumFiles == 2
NumResolvers == 2

Procs == 1..NumProcs
Files == 1..NumFiles
Resolvers == 1..NumResolvers

\* ------------------------------------------------------------------------
\* Directories and the system calls used on them
\* ------------------------------------------------------------------------
Absent == [exists |-> FALSE, files |-> {}]
Dir(fs) == [exists |-> TRUE, files |-> fs]
Produced(p) == Dir({<<p, k>> : k \in Files})

\* os.rename(src, dst) on directories: it succeeds when dst is absent or an
\* empty directory; when dst is a non-empty directory it fails with
\* ENOTEMPTY or EEXIST (POSIX allows either, the platform picks: errno).
OsRename(src, dst, errno) ==
  IF ~src.exists THEN "ENOENT"
  ELSE IF ~dst.exists \/ dst.files = {} THEN "ok"
  ELSE errno

RenameErrnos == {"ENOTEMPTY", "EEXIST"}

\* shutil.rmtree(directory, True) guarded by os.path.exists
safe_rmtree(d) == IF d.exists THEN Absent ELSE d

cleanup(d) == safe_rmtree(d)

\* ------------------------------------------------------------------------
\* State
\* ------------------------------------------------------------------------
VARIABLES
  \* --- pex/atomic_directory.py, one target_dir ---
  source,      \* the source= argument of the call site: TRUE when an offset is given
  head,        \* the parent directory of target_dir exists
  lockFile,    \* <head>/.<tail>.atomic_directory.lck exists
  target,      \* target_dir
  work,        \* target_dir + ".workdir"
  lockHolder,  \* the set of processes holding the exclusive lock on the lock file
  fd,          \* fd[p]: process p has lock_fd open
  pc,          \* pc[p]: where process p is in atomic_directory
  exc,         \* exc[p]: the exception in flight in (or raised out of) p's call
  path,        \* path[p]: which yield handed p its handle
  promoted,    \* promoted[p]: p's os.rename onto target_dir succeeded
  blockOK,     \* blockOK[p]: p's enclosed block exited normally after populating
  crashed,     \* some process died while it held the lock
  \* --- pex/resolver.py, one BuildResult / InstallResult slot ---
  rtarget,     \* the slot's target_dir
  rwork,       \* rwork[r]: the work_dir '<target_dir>.<uuid4>' of resolve r
  rpc,         \* rpc[r]: where resolve r is with the slot
  rrename,     \* rrename[r]: how AtomicDirectory.finalize of resolve r went
  rexc,        \* rexc[r]: the error raised out of resolve r
  \* --- the paths of an AtomicDirectory ---
  tdir,        \* the target_dir string an AtomicDirectory is made for
  wdir,        \* its work_dir string
  made,        \* which class made it: "none", "atomic_directory" or "resolver"
  \* --- pex/resolver.py, ResolveRequest.resolve_distributions ---
  reqs,        \* requirements or requirement_files are given
  maxJobs,     \* max_parallel_jobs
  dists,       \* dists[t]: the files pip download leaves in the download dir of target t
  reproducible, \* building the sdist gives the same wheel bytes for every target
  builtSlots,  \* cache: the targets whose BuildResult slot is finalized
  installedSlots, \* cache: the finalized InstallResult slots <<fingerprint, wheel file>>
  workDirs,    \* cache: the slots beside which this call left a filled work_dir, <<stage, key>>
  stale,       \* cache: the slots beside which earlier calls left a filled work_dir
  prev,        \* how the call before this one on the cache ended: "none" (there was
               \* none), "returned" or "raised"
  stage,       \* where resolve_distributions is
  to_build,    \* the list to_build: a BuildRequest is the target whose sdist it builds
  to_install,  \* the list to_install of InstallRequests
  to_calc,     \* the list to_calculate_requirements_for
  inputs,      \* execute_parallel: its inputs
  nextIn,      \* execute_parallel: the index of the next input to spawn
  running,     \* the subprocesses that are running, <<stage, index, input>>
  exited,      \* the subprocesses that exited, [job, ok], oldest first, not yet yielded
  failures,    \* the stages of this call in which a subprocess exited non-zero
  log,         \* the subprocesses spawned by this call, <<stage, input>> in spawn order
  raised,      \* the error this call raised, or "none"
  result,      \* the chroots of the ResolvedDistributions this call returned
  \* --- pex/resolver.py, DistributionRequirements ---
  cur,         \* markers_by_req_key of the subprocess output being read
  markersByKey, \* markers_by_requirement_key of merged
  ndeps,       \* the number of dependency requirement strings read so far
  collected,   \* the markers read so far in requirements for the key of dist
  final,       \* the requirement to_requirement(dist) gave, as tokens
  mpc,         \* "none", "merging" or "done"
  \* --- pex/cli/commands/lockfile/lockfile.py ---
  locked_resolves, \* the locked_resolves given to Lockfile.create
  lockfile,    \* Lockfile.locked_resolves of the Lockfile it made
  sel_targets, \* the targets given to Lockfile.select
  lnext,       \* Lockfile.select: the index of the next target of its loop
  selected,    \* the pairs select has yielded, <<index of the target, locked resolve>>
  lpc,         \* "none", "create", "select" or "done"
  \* --- pex/pep_427.py, one install_wheel_chroot ---
  names,       \* zf.namelist() of the wheel, without the directories
  console,     \* the names of its console_scripts entry points
  gui,         \* the names of its gui_scripts entry points
  requested,   \* requested=
  compile,     \* compile=
  umask,       \* the permission bits the process umask takes away
  fs,          \* the files below the destination
  installed_files, \* the list installed_files
  record,      \* the rows of the RECORD that was written
  wpc,         \* "none", "extract", "compile", "scripts", "record" or "done"
  \* --- one call of a function that keeps no state ---
  callee,      \* the function called, or "none"
  args,        \* its arguments (and what it reads of the environment)
  ret,         \* <<>> until it ends, then <<[kind, value]>>: what it returned or raised
  \* --- pex/common.py, one Chroot ---
  filesets,    \* Chroot.filesets: filesets[label] is the set of dst paths tagged label
  chroot,      \* the files below Chroot.chroot: chroot[dst] is the content of dst
  ccall        \* the last Chroot call, <<[op, dst, label, exc]>>, exc what it raised

adVars == <<source, head, lockFile, target, work, lockHolder, fd, pc, exc, path,
            promoted, blockOK, crashed>>
slotVars == <<rtarget, rwork, rpc, rrename, rexc>>
pathVars == <<tdir, wdir, made>>
pipeVars == <<reqs, maxJobs, dists, reproducible, builtSlots, installedSlots, workDirs, stale,
              prev, stage, to_build, to_install, to_calc, inputs, nextIn,
              running, exited, failures, log, raised, result>>
reqVars == <<cur, markersByKey, ndeps, collected, final, mpc>>
lockVars == <<locked_resolves, lockfile, sel_targets, lnext, selected, lpc>>
wheelVars == <<names, console, gui, requested, compile, umask, fs, installed_files,
               record, wpc>>
funVars == <<callee, args, ret>>
chrootVars == <<filesets, chroot, ccall>>
vars == <<adVars, slotVars, pathVars, pipeVars, reqVars, lockVars, wheelVars, funVars,
          chrootVars>>

\* what the actions of one part of the model leave alone
notAD == <<slotVars, pathVars, pipeVars, reqVars, lockVars, wheelVars,
  funVars, chrootVars>>
notSlot == <<adVars, pathVars, pipeVars, reqVars, lockVars, wheelVars,
  funVars, chrootVars>>
notPath == <<adVars, slotVars, pipeVars, reqVars, lockVars, wheelVars,
  funVars, chrootVars>>
notPipe == <<adVars, slotVars, pathVars, reqVars, lockVars, wheelVars,
  funVars, chrootVars>>
notReq == <<adVars, slotVars, pathVars, pipeVars, lockVars, wheelVars,
  funVars, chrootVars>>
notLock == <<adVars, slotVars, pathVars, pipeVars, reqVars, wheelVars,
  funVars, chrootVars>>
notWheel == <<adVars, slotVars, pathVars, pipeVars, reqVars, lockVars,
  funVars, chrootVars>>
notFun == <<adVars, slotVars, pathVars, pipeVars, reqVars, lockVars, wheelVars,
  chrootVars>>
notChroot == <<adVars, slotVars, pathVars, pipeVars, reqVars, lockVars, wheelVars,
  funVars>>

\* atomic_directory.py: nothing on disk, no call started
InitAD ==
  /\ head = FALSE
  /\ lockFile = FALSE
  /\ target = Absent
  /\ work = Absent
  /\ lockHolder = {}
  /\ fd = [p \in Procs |-> FALSE]
  /\ pc = [p \in Procs |-> "start"]
  /\ exc = [p \in Procs |-> "none"]
  /\ path = [p \in Procs |-> "none"]
  /\ promoted = [p \in Procs |-> FALSE]
  /\ blockOK = [p \in Procs |-> FALSE]
  /\ crashed = FALSE

\* resolver.py: an empty slot, every resolve about to look at it
InitSlot ==
  /\ rtarget = Absent
  /\ rwork = [r \in Resolvers |-> Absent]
  /\ rpc = [r \in Resolvers |-> "categorize"]
  /\ rrename = [r \in Resolvers |-> "none"]
  /\ rexc = [r \in Resolvers |-> "none"]

\* no AtomicDirectory object made yet
NoPath ==
  /\ tdir = <<>>
  /\ wdir = <<>>
  /\ made = "none"

\* the state of resolve_distributions before it is called, on an empty cache
NoCall ==
  /\ builtSlots = {}
  /\ installedSlots = {}
  /\ workDirs = {}
  /\ stale = {}
  /\ prev = "none"
  /\ stage = "start"
  /\ to_build = <<>>
  /\ to_install = <<>>
  /\ to_calc = <<>>
  /\ inputs = <<>>
  /\ nextIn = 1
  /\ running = {}
  /\ exited = <<>>
  /\ failures = {}
  /\ log = <<>>
  /\ raised = "none"
  /\ result = <<>>

\* no resolve is asked for
NoPipe ==
  /\ reqs = FALSE
  /\ maxJobs = 1
  /\ dists = <<>>
  /\ reproducible = TRUE
  /\ NoCall

\* no requirement is calculated
NoReq ==
  /\ cur = <<>>
  /\ markersByKey = <<>>
  /\ ndeps = 0
  /\ collected = {}
  /\ final = <<>>
  /\ mpc = "none"

\* no lock file is made or consulted
NoLock ==
  /\ locked_resolves = <<>>
  /\ lockfile = <<>>
  /\ sel_targets = <<>>
  /\ lnext = 1
  /\ selected = <<>>
  /\ lpc = "none"

\* no wheel is installed
NoWheel ==
  /\ names = {}
  /\ console = {}
  /\ gui = {}
  /\ requested = FALSE
  /\ compile = FALSE
  /\ umask = {}
  /\ fs = <<>>
  /\ installed_files = <<>>
  /\ record = <<>>
  /\ wpc = "none"

\* no function is called
NoFun ==
  /\ callee = "none"
  /\ args = <<>>
  /\ ret = <<>>

\* no Chroot is made
NoChroot ==
  /\ filesets = <<>>
  /\ chroot = <<>>
  /\ ccall = <<>>

Init ==
  /\ source \in BOOLEAN
  /\ InitAD
  /\ InitSlot
  /\ NoPath
  /\ NoPipe
  /\ NoReq
  /\ NoLock
  /\ NoWheel
  /\ NoFun
  /\ NoChroot

\* ------------------------------------------------------------------------
\* pex/atomic_directory.py
\* ------------------------------------------------------------------------
is_finalized == target.exists

Goto(p, l) == pc' = [pc EXCEPT ![p] = l]
Raise(p, e) == exc' = [exc EXCEPT ![p] = e]

\* a faulty variant: it has no early exit and takes the lock path whatever target_dir is
EnterAlwaysLocks(p) ==
  /\ pc[p] = "start"
  /\ Goto(p, "mkdir_head")
  /\ UNCHANGED <<source, head, lockFile, target, work, lockHolder, fd, exc, path,
                 promoted, blockOK, crashed>>
  /\ UNCHANGED notAD

\* atomic_directory, lines 105-109: the first is_finalized() check
Enter(p) ==
  /\ pc[p] = "start"
  /\ IF is_finalized
       THEN Goto(p, "yield_done") /\ path' = [path EXCEPT ![p] = "done"]
       ELSE Goto(p, "mkdir_head") /\ UNCHANGED path
  /\ UNCHANGED <<source, head, lockFile, target, work, lockHolder, fd, exc,
                 promoted, blockOK, crashed>>
  /\ UNCHANGED notAD

\* the enclosed block of a handle that was finalized on entry (line 108): it
\* has no work to do and returns or raises (e: what it raises)
BlockDone(p, e) ==
  /\ pc[p] = "yield_done"
  /\ Raise(p, e)
  /\ Goto(p, "done")
  /\ UNCHANGED <<source, head, lockFile, target, work, lockHolder, fd, path,
                 promoted, blockOK, crashed>>
  /\ UNCHANGED notAD

\* lines 111-113: safe_mkdir(head)
SafeMkdirHead(p) ==
  /\ pc[p] = "mkdir_head"
  /\ head' = TRUE
  /\ Goto(p, "open_lock")
  /\ UNCHANGED <<source, lockFile, target, work, lockHolder, fd, exc, path,
                 promoted, blockOK, crashed>>
  /\ UNCHANGED notAD

\* lines 117-120: os.open(lock file, O_CREAT | O_WRONLY)
OpenLock(p) ==
  /\ pc[p] = "open_lock"
  /\ lockFile' = TRUE
  /\ fd' = [fd EXCEPT ![p] = TRUE]
  /\ Goto(p, "lock_ex")
  /\ UNCHANGED <<source, head, target, work, lockHolder, exc, path,
                 promoted, blockOK, crashed>>
  /\ UNCHANGED notAD

\* a faulty variant: it does not wait for the lock
LockExNoWait(p) ==
  /\ pc[p] = "lock_ex"
  /\ lockHolder' = lockHolder \cup {p}
  /\ Goto(p, "recheck")
  /\ UNCHANGED <<source, head, lockFile, target, work, fd, exc, path,
                 promoted, blockOK, crashed>>
  /\ UNCHANGED notAD

\* line 137: lock_api(lock_fd, LOCK_EX) blocks until the lock is free
LockEx(p) ==
  /\ pc[p] = "lock_ex"
  /\ lockHolder = {}
  /\ lockHolder' = {p}
  /\ Goto(p, "recheck")
  /\ UNCHANGED <<source, head, lockFile, target, work, fd, exc, path,
                 promoted, blockOK, crashed>>
  /\ UNCHANGED notAD

\* line 137: lock_api raises (EINTR, ENOLCK, ...); nothing catches it
LockExFails(p) ==
  /\ pc[p] = "lock_ex"
  /\ Raise(p, "OSError:lock_api")
  /\ Goto(p, "done")
  /\ UNCHANGED <<source, head, lockFile, target, work, lockHolder, fd, path,
                 promoted, blockOK, crashed>>
  /\ UNCHANGED notAD

\* a faulty variant: it does not look at target_dir again under the lock
RecheckSkipped(p) ==
  /\ pc[p] = "recheck"
  /\ Goto(p, "mkdir_work")
  /\ UNCHANGED <<source, head, lockFile, target, work, lockHolder, fd, exc, path,
                 promoted, blockOK, crashed>>
  /\ UNCHANGED notAD

\* lines 138-145: the double-checked is_finalized() under the lock
Recheck(p) ==
  /\ pc[p] = "recheck"
  /\ IF is_finalized
       THEN Goto(p, "yield_lost") /\ path' = [path EXCEPT ![p] = "lost"]
       ELSE Goto(p, "mkdir_work") /\ UNCHANGED path
  /\ UNCHANGED <<source, head, lockFile, target, work, lockHolder, fd, exc,
                 promoted, blockOK, crashed>>
  /\ UNCHANGED notAD

\* the enclosed block of the loser of the race (line 142): no work to do
BlockLost(p, e) ==
  /\ pc[p] = "yield_lost"
  /\ Raise(p, e)
  /\ Goto(p, "unlock")
  /\ UNCHANGED <<source, head, lockFile, target, work, lockHolder, fd, path,
                 promoted, blockOK, crashed>>
  /\ UNCHANGED notAD

\* a faulty variant: it has os.mkdir inside the try, so its failure runs cleanup and unlock
MkdirWorkInTry(p) ==
  /\ pc[p] = "mkdir_work"
  /\ IF work.exists
       THEN /\ Raise(p, "FileExistsError:mkdir")
            /\ Goto(p, "cleanup")
            /\ UNCHANGED <<work, path>>
       ELSE /\ work' = Dir({})
            /\ Goto(p, "yield_work")
            /\ path' = [path EXCEPT ![p] = "work"]
            /\ UNCHANGED exc
  /\ UNCHANGED <<source, head, lockFile, target, lockHolder, fd,
                 promoted, blockOK, crashed>>
  /\ UNCHANGED notAD

\* line 150: os.mkdir(work_dir), outside of any try: FileExistsError when
\* work_dir exists, and then the error leaves atomic_directory at once
MkdirWork(p) ==
  /\ pc[p] = "mkdir_work"
  /\ IF work.exists
       THEN /\ Raise(p, "FileExistsError:mkdir")
            /\ Goto(p, "done")
            /\ UNCHANGED <<work, path>>
       ELSE /\ work' = Dir({})
            /\ Goto(p, "yield_work")
            /\ path' = [path EXCEPT ![p] = "work"]
            /\ UNCHANGED exc
  /\ UNCHANGED <<source, head, lockFile, target, lockHolder, fd,
                 promoted, blockOK, crashed>>
  /\ UNCHANGED notAD

\* line 150: os.mkdir fails for another reason (EACCES, ENOSPC, ...)
MkdirWorkFails(p) ==
  /\ pc[p] = "mkdir_work"
  /\ Raise(p, "OSError:mkdir")
  /\ Goto(p, "done")
  /\ UNCHANGED <<source, head, lockFile, target, work, lockHolder, fd, path,
                 promoted, blockOK, crashed>>
  /\ UNCHANGED notAD

\* line 152, the enclosed block populating work_dir: it writes its next file
BlockWrite(p) ==
  /\ pc[p] = "yield_work"
  /\ \E k \in Files :
       /\ <<p, k>> \notin work.files
       /\ \A j \in 1..(k - 1) : <<p, j>> \in work.files
       /\ work' = Dir(work.files \cup {<<p, k>>})
  /\ UNCHANGED <<source, head, lockFile, target, lockHolder, fd, pc, exc, path,
                 promoted, blockOK, crashed>>
  /\ UNCHANGED notAD

\* line 152 -> 157: the block has written everything and exits normally
BlockReturn(p) ==
  /\ pc[p] = "yield_work"
  /\ \A k \in Files : <<p, k>> \in work.files
  /\ blockOK' = [blockOK EXCEPT ![p] = TRUE]
  /\ Goto(p, "finalize")
  /\ UNCHANGED <<source, head, lockFile, target, work, lockHolder, fd, exc, path,
                 promoted, crashed>>
  /\ UNCHANGED notAD

\* a faulty variant: it finalizes whatever the block left when it raised
BlockRaiseFinalizes(p, e) ==
  /\ pc[p] = "yield_work"
  /\ e \in {"Exception", "BaseException"}
  /\ Raise(p, e)
  /\ Goto(p, IF e = "Exception" THEN "finalize" ELSE "unlock")
  /\ UNCHANGED <<source, head, lockFile, target, work, lockHolder, fd, path,
                 promoted, blockOK, crashed>>
  /\ UNCHANGED notAD

\* lines 152-155, 158: the block raises e. 'except Exception' catches an
\* Exception and runs cleanup(); a BaseException that is not an Exception
\* (KeyboardInterrupt, SystemExit) goes straight to the finally clause.
BlockRaise(p, e) ==
  /\ pc[p] = "yield_work"
  /\ e \in {"Exception", "BaseException"}
  /\ Raise(p, e)
  /\ Goto(p, IF e = "Exception" THEN "cleanup" ELSE "unlock")
  /\ UNCHANGED <<source, head, lockFile, target, work, lockHolder, fd, path,
                 promoted, blockOK, crashed>>
  /\ UNCHANGED notAD

\* AtomicDirectory.finalize, lines 49-50
FinalizeCheck(p) ==
  /\ pc[p] = "finalize"
  /\ Goto(p, IF is_finalized THEN "unlock" ELSE "rename")
  /\ UNCHANGED <<source, head, lockFile, target, work, lockHolder, fd, exc, path,
                 promoted, blockOK, crashed>>
  /\ UNCHANGED notAD

\* AtomicDirectory.finalize, lines 52-67: os.rename(source, target_dir). With
\* a source offset the files of the block live under work_dir/source and
\* work_dir itself stays behind. EEXIST and ENOTEMPTY are swallowed.
FinalizeRename(p) ==
  /\ pc[p] = "rename"
  /\ \E errno \in RenameErrnos :
       LET r == OsRename(work, target, errno) IN
         /\ IF r = "ok"
              THEN /\ target' = Dir(work.files)
                   /\ work' = IF source THEN Dir({}) ELSE Absent
                   /\ promoted' = [promoted EXCEPT ![p] = TRUE]
              ELSE UNCHANGED <<target, work, promoted>>
         /\ IF r \in {"ok", "EEXIST", "ENOTEMPTY"}
              THEN UNCHANGED exc
              ELSE Raise(p, "OSError:rename")
  /\ Goto(p, "cleanup")
  /\ UNCHANGED <<source, head, lockFile, lockHolder, fd, path, blockOK, crashed>>
  /\ UNCHANGED notAD

\* AtomicDirectory.finalize, lines 64-67: os.rename fails with another errno
\* (EXDEV, EACCES, ...) and the error is re-raised
FinalizeRenameFails(p) ==
  /\ pc[p] = "rename"
  /\ Raise(p, "OSError:rename")
  /\ Goto(p, "cleanup")
  /\ UNCHANGED <<source, head, lockFile, target, work, lockHolder, fd, path,
                 promoted, blockOK, crashed>>
  /\ UNCHANGED notAD

\* AtomicDirectory.cleanup, lines 71-73: called from line 154 (the block
\* raised an Exception) and from the finally of finalize (line 69)
Cleanup(p) ==
  /\ pc[p] = "cleanup"
  /\ work' = cleanup(work)
  /\ Goto(p, "unlock")
  /\ UNCHANGED <<source, head, lockFile, target, lockHolder, fd, exc, path,
                 promoted, blockOK, crashed>>
  /\ UNCHANGED notAD

\* unlock, lines 127-132: lock_api(lock_fd, LOCK_UN) and os.close(lock_fd);
\* then the exception in flight, if any, leaves atomic_directory
Unlock(p) ==
  /\ pc[p] = "unlock"
  /\ lockHolder' = lockHolder \ {p}
  /\ fd' = [fd EXCEPT ![p] = FALSE]
  /\ Goto(p, "done")
  /\ UNCHANGED <<source, head, lockFile, target, work, exc, path,
                 promoted, blockOK, crashed>>
  /\ UNCHANGED notAD

\* The process dies (lines 134-136): the operating system closes its file
\* descriptors, which releases the lock; the filesystem stays as it is.
Die(p) ==
  /\ pc[p] \notin {"start", "dead"}
  /\ lockHolder' = lockHolder \ {p}
  /\ fd' = [fd EXCEPT ![p] = FALSE]
  /\ crashed' = (crashed \/ (p \in lockHolder /\ pc[p] # "done"))
  /\ Goto(p, "dead")
  /\ UNCHANGED <<source, head, lockFile, target, work, exc, path,
                 promoted, blockOK>>
  /\ UNCHANGED notAD

BlockExits == {"none", "Exception", "BaseException"}

Next ==
  \/ \E p \in Procs : Enter(p)
  \/ \E p \in Procs : \E e \in BlockExits : BlockDone(p, e)
  \/ \E p \in Procs : SafeMkdirHead(p)
  \/ \E p \in Procs : OpenLock(p)
  \/ \E p \in Procs : LockEx(p)
  \/ \E p \in Procs : LockExFails(p)
  \/ \E p \in Procs : Recheck(p)
  \/ \E p \in Procs : \E e \in BlockExits : BlockLost(p, e)
  \/ \E p \in Procs : MkdirWork(p)
  \/ \E p \in Procs : MkdirWorkFails(p)
  \/ \E p \in Procs : BlockWrite(p)
  \/ \E p \in Procs : BlockReturn(p)
  \/ \E p \in Procs : \E e \in {"Exception", "BaseException"} : BlockRaise(p, e)
  \/ \E p \in Procs : FinalizeCheck(p)
  \/ \E p \in Procs : FinalizeRename(p)
  \/ \E p \in Procs : FinalizeRenameFails(p)
  \/ \E p \in Procs : Cleanup(p)
  \/ \E p \in Procs : Unlock(p)
  \/ \E p \in Procs : Die(p)

Spec == Init /\ [][Next]_vars

\* the steps process p takes by itself once it is scheduled: everything but
\* the wait for the lock, errors of the operating system and its death
Step(p) ==
  \/ Enter(p)
  \/ \E e \in BlockExits : BlockDone(p, e)
  \/ SafeMkdirHead(p)
  \/ OpenLock(p)
  \/ Recheck(p)
  \/ \E e \in BlockExits : BlockLost(p, e)
  \/ MkdirWork(p)
  \/ BlockWrite(p)
  \/ BlockReturn(p)
  \/ \E e \in {"Exception", "BaseException"} : BlockRaise(p, e)
  \/ FinalizeCheck(p)
  \/ FinalizeRename(p)
  \/ Cleanup(p)
  \/ Unlock(p)

\* atomic_directory when no call of the operating system fails by itself
NextFair ==
  \/ \E p \in Procs : Step(p)
  \/ \E p \in Procs : LockEx(p)
  \/ \E p \in Procs : Die(p)

\* fair scheduling: a process that can take a step takes it, a block that
\* was entered is left, and a process that waits for a lock which is free
\* again and again gets it
SpecFair ==
  /\ Init
  /\ [][NextFair]_vars
  /\ \A p \in Procs : WF_vars(Step(p)) /\ SF_vars(LockEx(p))

\* ------------------------------------------------------------------------
\* pex/resolver.py: one BuildResult / InstallResult slot of a cache shared
\* by concurrent resolves. Each resolve has its own work_dir (uuid4 suffix)
\* and no lock is taken.
\* ------------------------------------------------------------------------
RGoto(r, l) == rpc' = [rpc EXCEPT ![r] = l]

\* _categorize_build_requests / _categorize_install_requests, lines 350-387:
\* a slot that is_finalized is reused, any other is queued for a job
Categorize(r) ==
  /\ rpc[r] = "categorize"
  /\ RGoto(r, IF rtarget.exists THEN "reused" ELSE "spawn")
  /\ UNCHANGED <<rtarget, rwork, rrename, rexc>>
  /\ UNCHANGED notSlot

\* _spawn_wheel_build / _spawn_install, lines 364-399: the job gets the
\* work_dir of a fresh AtomicDirectory as its output directory
SpawnJob(r) ==
  /\ rpc[r] = "spawn"
  /\ rwork' = [rwork EXCEPT ![r] = Dir({})]
  /\ RGoto(r, "job")
  /\ UNCHANGED <<rtarget, rrename, rexc>>
  /\ UNCHANGED notSlot

\* the pip subprocess writes its next file into the work_dir
JobWrite(r) ==
  /\ rpc[r] = "job"
  /\ \E k \in Files :
       /\ <<r, k>> \notin rwork[r].files
       /\ \A j \in 1..(k - 1) : <<r, j>> \in rwork[r].files
       /\ rwork' = [rwork EXCEPT ![r] = Dir(rwork[r].files \cup {<<r, k>>})]
  /\ UNCHANGED <<rtarget, rpc, rrename, rexc>>
  /\ UNCHANGED notSlot

\* the pip subprocess exits 0 with everything written; the result reaches
\* finalize_build / finalize_install (lines 474-477, 506-509)
JobSucceeds(r) ==
  /\ rpc[r] = "job"
  /\ \A k \in Files : <<r, k>> \in rwork[r].files
  /\ RGoto(r, "finalize")
  /\ UNCHANGED <<rtarget, rwork, rrename, rexc>>
  /\ UNCHANGED notSlot

\* the pip subprocess exits non-zero: _run_parallel raises Untranslateable
\* and nothing in resolve_distributions touches the work_dir again
JobFails(r) ==
  /\ rpc[r] = "job"
  /\ rexc' = [rexc EXCEPT ![r] = "Untranslateable"]
  /\ RGoto(r, "raised")
  /\ UNCHANGED <<rtarget, rwork, rrename>>
  /\ UNCHANGED notSlot

\* resolver.AtomicDirectory.finalize, lines 138-140
SlotFinalizeCheck(r) ==
  /\ rpc[r] = "finalize"
  /\ IF rtarget.exists
       THEN RGoto(r, "done") /\ rrename' = [rrename EXCEPT ![r] = "finalized"]
       ELSE RGoto(r, "rename") /\ UNCHANGED rrename
  /\ UNCHANGED <<rtarget, rwork, rexc>>
  /\ UNCHANGED notSlot

\* resolver.AtomicDirectory.finalize, lines 142-155: os.rename(work_dir,
\* target_dir); only ENOTEMPTY is swallowed and there is no cleanup
SlotFinalizeRename(r) ==
  /\ rpc[r] = "rename"
  /\ \E errno \in RenameErrnos :
       LET res == OsRename(rwork[r], rtarget, errno) IN
         /\ rrename' = [rrename EXCEPT ![r] = res]
         /\ IF res = "ok"
              THEN /\ rtarget' = rwork[r]
                   /\ rwork' = [rwork EXCEPT ![r] = Absent]
              ELSE UNCHANGED <<rtarget, rwork>>
         /\ IF res \in {"ok", "ENOTEMPTY"}
              THEN RGoto(r, "done") /\ UNCHANGED rexc
              ELSE RGoto(r, "raised") /\ rexc' = [rexc EXCEPT ![r] = "OSError"]
  /\ UNCHANGED notSlot

NextSlot ==
  \/ \E r \in Resolvers : Categorize(r)
  \/ \E r \in Resolvers : SpawnJob(r)
  \/ \E r \in Resolvers : JobWrite(r)
  \/ \E r \in Resolvers : JobSucceeds(r)
  \/ \E r \in Resolvers : JobFails(r)
  \/ \E r \in Resolvers : SlotFinalizeCheck(r)
  \/ \E r \in Resolvers : SlotFinalizeRename(r)

SpecSlot == Init /\ [][NextSlot]_vars

\* ------------------------------------------------------------------------
\* The paths of an AtomicDirectory (specification SpecPath). A path is a
\* sequence of tokens: the separator "/" or a piece of a name.
\* ------------------------------------------------------------------------
MaxPathLen == 3

Sep == "/"
NameTokens == {"a", "b"}
Paths == UNION {[1..n -> NameTokens \cup {Sep}] : n \in 1..MaxPathLen}

\* AtomicDirectory.__init__, line 23: "{}.workdir".format(target_dir)
work_dir_of(t) == t \o <<".workdir">>

\* resolver.AtomicDirectory.for_target_dir, line 132:
\* '{}.{}'.format(target_dir, uuid4().hex)
for_target_dir(t) == t \o <<".uuid4">>

\* str.rfind('/'), counted from 1; 0 when there is no separator
LastSep(p) ==
  IF \E k \in 1..Len(p) : p[k] = Sep
    THEN CHOOSE k \in 1..Len(p) : p[k] = Sep /\ \A j \in (k + 1)..Len(p) : p[j] # Sep
    ELSE 0

\* the directory entries a path names, outermost first, as the operating
\* system resolves it: the names between separators, empty ones dropped
RECURSIVE Components(_)
Components(p) ==
  IF p = <<>> THEN <<>>
  ELSE LET i == LastSep(p)
           name == SubSeq(p, i + 1, Len(p))
           rest == SubSeq(p, 1, i - 1)
       IN IF name = <<>> THEN Components(rest) ELSE Append(Components(rest), name)

InitPath ==
  /\ source = FALSE
  /\ InitAD
  /\ InitSlot
  /\ NoLock
  /\ NoWheel
  /\ NoFun
  /\ NoChroot
  /\ tdir \in Paths
  /\ wdir = <<>>
  /\ made = "none"
  /\ NoPipe
  /\ NoReq

\* AtomicDirectory(target_dir=target_dir), atomic_directory.py lines 20-23
MakeAtomicDirectory ==
  /\ made = "none"
  /\ wdir' = work_dir_of(tdir)
  /\ made' = "atomic_directory"
  /\ UNCHANGED tdir
  /\ UNCHANGED notPath

\* AtomicDirectory.for_target_dir(target_dir), resolver.py lines 130-132
MakeForTargetDir ==
  /\ made = "none"
  /\ wdir' = for_target_dir(tdir)
  /\ made' = "resolver"
  /\ UNCHANGED tdir
  /\ UNCHANGED notPath

NextPath ==
  \/ MakeAtomicDirectory
  \/ MakeForTargetDir

SpecPath == InitPath /\ [][NextPath]_vars

\* ------------------------------------------------------------------------
\* pex/resolver.py: ResolveRequest.resolve_distributions, one process
\* calling it on a cache, once or again (specification SpecPipe)
\* ------------------------------------------------------------------------

NumTargets == 2
MaxJobs == 2
MaxDists == 2

Targets == 1..NumTargets

\* the files pip download can leave in a download dir: a wheel and an sdist
Wheel == "w.whl"
Sdist == "s.tar.gz"
BuiltWheel == "b.whl"
DistFiles == {Wheel, Sdist}

\* the stages that run subprocesses, in the order of resolve_distributions
Stages == <<"resolve", "build", "install", "requirements">>
StageSet == {Stages[i] : i \in DOMAIN Stages}
StageNo(st) == CHOOSE i \in DOMAIN Stages : Stages[i] = st

\* a faulty variant: every stage raises Untranslateable
raise_type_same(st) == "Untranslateable"

\* raise_type of each _run_parallel call
raise_type(st) == IF st = "resolve" THEN "Unsatisfiable" ELSE "Untranslateable"

\* CacheHelper.hash of a wheel: the downloaded wheel is the same file for
\* every target; the wheel built for target t has the same bytes for every
\* target only when the build is reproducible
Fingerprint(t, file) ==
  IF file = Wheel THEN <<"w">>
  ELSE IF reproducible THEN <<"b">> ELSE <<"b", t>>

\* InstallRequest.create
InstallRequest(t, file) ==
  [target |-> t, wheel_file |-> file, fingerprint |-> Fingerprint(t, file)]

\* ResolveResult.build_requests: a BuildRequest is the target it builds for
build_requests(t) == IF Sdist \in dists[t] THEN <<t>> ELSE <<>>

\* ResolveResult.install_requests
install_requests(t) ==
  IF Wheel \in dists[t] THEN <<InstallRequest(t, Wheel)>> ELSE <<>>

\* BuildResult.finalize_build, after the rename: the wheels of dist_dir
finalize_build(t) == <<InstallRequest(t, BuiltWheel)>>

\* InstallResult.from_request: the install chroot of an InstallRequest
install_chroot(q) == <<q.fingerprint, q.wheel_file>>

RECURSIVE Concat(_)
Concat(ss) == IF ss = <<>> THEN <<>> ELSE Head(ss) \o Concat(Tail(ss))

\* a faulty variant: every install request is its own representative
RepresentativesNoDedup(qs, seen) == qs

\* the requests[0] of install_requests_by_wheel_file, in the OrderedDict's
\* order; seen is the set of wheel files that already have a key

RECURSIVE Representatives(_, _)
Representatives(qs, seen) ==
  IF qs = <<>> THEN <<>>
  ELSE IF Head(qs).wheel_file \in seen THEN Representatives(Tail(qs), seen)
  ELSE <<Head(qs)>> \o Representatives(Tail(qs), seen \cup {Head(qs).wheel_file})

\* install_requests_by_wheel_file[wheel_file]
Group(qs, file) == SelectSeq(qs, LAMBDA q : q.wheel_file = file)

\* a faulty variant: one request for the whole group
requirements_requests_once(rep, qs) ==
  <<[target |-> rep.target, distributions |-> install_chroot(rep)]>>

\* InstallResult._iter_requirements_requests for the result of rep: one
\* DistributionRequirements.Request per install request of rep's group,
\* each over the distributions of rep's install chroot
requirements_requests(rep, qs) ==
  LET group == Group(qs, rep.wheel_file)
  IN  [i \in 1..Len(group) |->
         [target |-> group[i].target, distributions |-> install_chroot(rep)]]

\* the OrderedSet of the distributions of a list of requests
RECURSIVE OrderedSetOf(_, _)
OrderedSetOf(rs, seen) ==
  IF rs = <<>> THEN <<>>
  ELSE IF Head(rs).distributions \in seen THEN OrderedSetOf(Tail(rs), seen)
  ELSE <<Head(rs).distributions>>
         \o OrderedSetOf(Tail(rs), seen \cup {Head(rs).distributions})

\* the key of the cache slot a build or install job fills
SlotKey(st, input) == IF st = "build" THEN input ELSE install_chroot(input)

\* the number of files in the download dirs of the targets 1..n
RECURSIVE NumDists(_, _)
NumDists(d, n) == IF n = 0 THEN 0 ELSE Cardinality(d[n]) + NumDists(d, n - 1)

callVars == <<to_build, to_install, to_calc, inputs, nextIn, raised, result>>
cacheVars == <<builtSlots, installedSlots, workDirs, stale>>
inputVars == <<reqs, maxJobs, dists, reproducible>>
jobVars == <<running, exited, failures, log>>

InitPipe ==
  /\ source = FALSE
  /\ InitAD
  /\ InitSlot
  /\ NoPath
  /\ reqs \in BOOLEAN
  /\ maxJobs \in 1..MaxJobs
  /\ dists \in {d \in [Targets -> SUBSET DistFiles] : NumDists(d, NumTargets) <= MaxDists}
  /\ reproducible \in BOOLEAN
  /\ NoCall
  /\ NoReq
  /\ NoLock
  /\ NoWheel
  /\ NoFun
  /\ NoChroot

\* a faulty variant: stage 1 runs also when no requirement is given
StartAlwaysResolves ==
  /\ stage = "start"
  /\ IF FALSE
       THEN /\ stage' = "returned"
            /\ UNCHANGED inputs
       ELSE /\ stage' = "resolve"
            /\ inputs' = [i \in 1..NumTargets |-> i]
  /\ UNCHANGED <<to_build, to_install, to_calc, nextIn, raised, result>>
  /\ UNCHANGED <<cacheVars, inputVars, jobVars, prev>>
  /\ UNCHANGED notPipe

\* resolve_distributions up to the first _run_parallel
Start ==
  /\ stage = "start"
  /\ IF ~reqs
       THEN /\ stage' = "returned"
            /\ UNCHANGED inputs
       ELSE /\ stage' = "resolve"
            /\ inputs' = [i \in 1..NumTargets |-> i]
  /\ UNCHANGED <<to_build, to_install, to_calc, nextIn, raised, result>>
  /\ UNCHANGED <<cacheVars, inputVars, jobVars, prev>>
  /\ UNCHANGED notPipe

\* a faulty variant: _run_parallel asks for one job more than max_parallel_jobs
max_jobs_one_more == maxJobs + 1

\* _run_parallel: the max_jobs every stage hands to execute_parallel
max_jobs == maxJobs

\* execute_parallel spawns the next input while fewer than max_jobs run and
\* no job has exited non-zero
Spawn ==
  /\ stage \in StageSet
  /\ nextIn <= Len(inputs)
  /\ Cardinality(running) < max_jobs
  /\ \A k \in DOMAIN exited : exited[k].ok
  /\ running' = running \cup {<<stage, nextIn, inputs[nextIn]>>}
  /\ nextIn' = nextIn + 1
  /\ log' = Append(log, <<stage, inputs[nextIn]>>)
  /\ UNCHANGED <<to_build, to_install, to_calc, inputs, raised, result>>
  /\ UNCHANGED <<cacheVars, inputVars, exited, failures, prev, stage>>
  /\ UNCHANGED notPipe

\* a subprocess exits, with 0 (ok) or not; a build or install job that
\* exits 0 has filled its work_dir; after the raise nothing takes results
JobExit(j, ok) ==
  /\ j \in running
  /\ running' = running \ {j}
  /\ exited' = IF stage = "raised" THEN exited
                ELSE Append(exited, [job |-> j, ok |-> ok])
  /\ failures' = IF ok THEN failures ELSE failures \cup {j[1]}
  /\ workDirs' = IF ok /\ j[1] \in {"build", "install"}
                  THEN workDirs \cup {<<j[1], SlotKey(j[1], j[3])>>}
                  ELSE workDirs
  /\ UNCHANGED <<callVars, inputVars, builtSlots, installedSlots, stale, log, prev, stage>>
  /\ UNCHANGED notPipe

\* execute_parallel finds that a job exited non-zero and raises raise_type
JobError ==
  /\ stage \in StageSet
  /\ exited # <<>>
  /\ ~Head(exited).ok
  /\ exited' = <<>>
  /\ stage' = "raised"
  /\ raised' = raise_type(stage)
  /\ UNCHANGED <<to_build, to_install, to_calc, inputs, nextIn, result>>
  /\ UNCHANGED <<cacheVars, inputVars, running, failures, log, prev>>
  /\ UNCHANGED notPipe

\* the result execute_parallel yields next, when there is one
Yielded(st) ==
  /\ stage \in StageSet
  /\ exited # <<>>
  /\ Head(exited).ok
  /\ Head(exited).job[1] = st

\* stage 1, the body of the for loop
ResolveResultIn ==
  /\ Yielded("resolve")
  /\ LET t == Head(exited).job[3]
     IN  /\ to_build' = to_build \o build_requests(t)
         /\ to_install' = to_install \o install_requests(t)
  /\ exited' = Tail(exited)
  /\ UNCHANGED <<to_calc, inputs, nextIn, raised, result>>
  /\ UNCHANGED <<cacheVars, inputVars, running, failures, log, prev, stage>>
  /\ UNCHANGED notPipe

\* stage 2, the body of the for loop: finalize_build renames the work_dir
BuildResultIn ==
  /\ Yielded("build")
  /\ LET t == Head(exited).job[3]
     IN  /\ builtSlots' = builtSlots \cup {t}
         /\ workDirs' = workDirs \ {<<"build", t>>}
         /\ to_install' = to_install \o finalize_build(t)
  /\ exited' = Tail(exited)
  /\ UNCHANGED <<to_build, to_calc, inputs, nextIn, raised, result>>
  /\ UNCHANGED <<installedSlots, stale, inputVars, running, failures, log, prev, stage>>
  /\ UNCHANGED notPipe

\* stage 3, the body of the for loop: add_requirements_requests
InstallResultIn ==
  /\ Yielded("install")
  /\ LET rep == Head(exited).job[3]
     IN  /\ installedSlots' = installedSlots \cup {install_chroot(rep)}
         /\ workDirs' = workDirs \ {<<"install", install_chroot(rep)>>}
         /\ to_calc' = to_calc \o requirements_requests(rep, to_install)
  /\ exited' = Tail(exited)
  /\ UNCHANGED <<to_build, to_install, inputs, nextIn, raised, result>>
  /\ UNCHANGED <<builtSlots, stale, inputVars, running, failures, log, prev, stage>>
  /\ UNCHANGED notPipe

\* stage 4: DistributionRequirements.merged takes the next result
RequirementsResultIn ==
  /\ Yielded("requirements")
  /\ exited' = Tail(exited)
  /\ UNCHANGED callVars
  /\ UNCHANGED <<cacheVars, inputVars, running, failures, log, prev, stage>>
  /\ UNCHANGED notPipe

\* execute_parallel is exhausted: every input was spawned, every job has
\* exited and every result was yielded
Drained(st) ==
  /\ stage = st
  /\ nextIn > Len(inputs)
  /\ running = {}
  /\ exited = <<>>

\* after stage 1: return when there is nothing to build or install, else
\* _categorize_build_requests and the start of stage 2
EndResolve ==
  /\ Drained("resolve")
  /\ IF to_build = <<>> /\ to_install = <<>>
       THEN /\ stage' = "returned"
            /\ UNCHANGED <<to_install, inputs, nextIn>>
       ELSE LET unsatisfied == SelectSeq(to_build, LAMBDA t : t \notin builtSlots)
                cached == SelectSeq(to_build, LAMBDA t : t \in builtSlots)
            IN  /\ stage' = "build"
                /\ to_install' = to_install
                     \o Concat([i \in 1..Len(cached) |-> finalize_build(cached[i])])
                /\ inputs' = unsatisfied
                /\ nextIn' = 1
  /\ UNCHANGED <<to_build, to_calc, raised, result>>
  /\ UNCHANGED <<cacheVars, inputVars, jobVars, prev>>
  /\ UNCHANGED notPipe

\* a faulty variant: stage 3 starts once every build is spawned, without
\* taking the results of the builds
EndBuildEarly ==
  /\ stage = "build"
  /\ nextIn > Len(inputs)
  /\ LET reps == Representatives(to_install, {})
         unsatisfied == SelectSeq(reps, LAMBDA q : install_chroot(q) \notin installedSlots)
         cached == SelectSeq(reps, LAMBDA q : install_chroot(q) \in installedSlots)
     IN  /\ stage' = "install"
         /\ to_calc' = to_calc
              \o Concat([i \in 1..Len(cached) |->
                           requirements_requests(cached[i], to_install)])
         /\ inputs' = unsatisfied
         /\ nextIn' = 1
  /\ UNCHANGED <<to_build, to_install, raised, result>>
  /\ UNCHANGED <<cacheVars, inputVars, jobVars, prev>>
  /\ UNCHANGED notPipe

\* after stage 2: the dedup by wheel file, _categorize_install_requests and
\* the start of stage 3
EndBuild ==
  /\ Drained("build")
  /\ LET reps == Representatives(to_install, {})
         unsatisfied == SelectSeq(reps, LAMBDA q : install_chroot(q) \notin installedSlots)
         cached == SelectSeq(reps, LAMBDA q : install_chroot(q) \in installedSlots)
     IN  /\ stage' = "install"
         /\ to_calc' = to_calc
              \o Concat([i \in 1..Len(cached) |->
                           requirements_requests(cached[i], to_install)])
         /\ inputs' = unsatisfied
         /\ nextIn' = 1
  /\ UNCHANGED <<to_build, to_install, raised, result>>
  /\ UNCHANGED <<cacheVars, inputVars, jobVars, prev>>
  /\ UNCHANGED notPipe

\* after stage 3: the start of stage 4
EndInstall ==
  /\ Drained("install")
  /\ stage' = "requirements"
  /\ inputs' = to_calc
  /\ nextIn' = 1
  /\ UNCHANGED <<to_build, to_install, to_calc, raised, result>>
  /\ UNCHANGED <<cacheVars, inputVars, jobVars, prev>>
  /\ UNCHANGED notPipe

\* a faulty variant: the resolved distributions are returned as a list
EndRequirementsList ==
  /\ Drained("requirements")
  /\ stage' = "returned"
  /\ result' = [i \in DOMAIN to_calc |-> to_calc[i].distributions]
  /\ UNCHANGED <<to_build, to_install, to_calc, inputs, nextIn, raised>>
  /\ UNCHANGED <<cacheVars, inputVars, jobVars, prev>>
  /\ UNCHANGED notPipe

\* after stage 4: the OrderedSet of resolved distributions is returned
EndRequirements ==
  /\ Drained("requirements")
  /\ stage' = "returned"
  /\ result' = OrderedSetOf(to_calc, {})
  /\ UNCHANGED <<to_build, to_install, to_calc, inputs, nextIn, raised>>
  /\ UNCHANGED <<cacheVars, inputVars, jobVars, prev>>
  /\ UNCHANGED notPipe

\* resolve_distributions is called a second time with the same inputs on
\* the same cache, once the subprocesses of the first call are gone
Rerun ==
  /\ stage \in {"returned", "raised"}
  /\ running = {}
  /\ prev = "none"
  /\ prev' = stage
  /\ stage' = "start"
  /\ to_build' = <<>>
  /\ to_install' = <<>>
  /\ to_calc' = <<>>
  /\ inputs' = <<>>
  /\ nextIn' = 1
  /\ exited' = <<>>
  /\ failures' = {}
  /\ log' = <<>>
  /\ raised' = "none"
  /\ result' = <<>>
  /\ stale' = stale \cup workDirs
  /\ workDirs' = {}
  /\ UNCHANGED <<builtSlots, installedSlots, inputVars, running>>
  /\ UNCHANGED notPipe

NextPipe ==
  \/ Start
  \/ Spawn
  \/ \E j \in running, ok \in BOOLEAN : JobExit(j, ok)
  \/ JobError
  \/ ResolveResultIn
  \/ BuildResultIn
  \/ InstallResultIn
  \/ RequirementsResultIn
  \/ EndResolve
  \/ EndBuild
  \/ EndInstall
  \/ EndRequirements
  \/ Rerun

SpecPipe == InitPipe /\ [][NextPipe]_vars

\* ------------------------------------------------------------------------
\* pex/resolver.py: DistributionRequirements, stage 4's merge of the
\* subprocess outputs and to_requirement for one distribution
\* (specification SpecReq)
\* ------------------------------------------------------------------------

MaxDeps == 3
NumMarkers == 3

\* the key of the distribution asked about, and another project's key
DistKey == "dist"
Keys == {DistKey, "other"}

\* an environment marker; NoMarker is a requirement string without one
Markers == {"m" \o ToString(i) : i \in 1..NumMarkers}
NoMarker == ""

\* OrderedSet.add
Add(os, x) == IF \E i \in DOMAIN os : os[i] = x THEN os ELSE Append(os, x)

\* OrderedSet.update
RECURSIVE Update(_, _)
Update(os, xs) == IF xs = <<>> THEN os ELSE Update(Add(os, Head(xs)), Tail(xs))

\* defaultdict(OrderedSet) without an entry
NoMarkers == [k \in Keys |-> <<>>]

\* dist.as_requirement(): name==version
as_requirement == <<DistKey, "==", "1.0">>

\* ' and '.join('({})'.format(marker) for marker in markers)
RECURSIVE JoinBare(_)
JoinBare(ms) ==
  IF Len(ms) = 1 THEN <<ms[1]>>
  ELSE <<ms[1], "and">> \o JoinBare(Tail(ms))

RECURSIVE Join(_)
Join(ms) ==
  IF Len(ms) = 1 THEN <<"(", ms[1], ")">>
  ELSE <<"(", ms[1], ")", "and">> \o Join(Tail(ms))

\* a faulty variant: the markers are joined without parentheses
to_requirement_bare(markers) ==
  IF markers = <<>> THEN as_requirement
  ELSE IF Len(markers) = 1 THEN as_requirement \o <<";", markers[1]>>
  ELSE as_requirement \o <<";">> \o JoinBare(markers)

\* DistributionRequirements.to_requirement, for the markers of dist's key
to_requirement(markers) ==
  IF markers = <<>> THEN as_requirement
  ELSE IF Len(markers) = 1 THEN as_requirement \o <<";", markers[1]>>
  ELSE as_requirement \o <<";">> \o Join(markers)

InitReq ==
  /\ source = FALSE
  /\ InitAD
  /\ InitSlot
  /\ NoPath
  /\ NoPipe
  /\ NoLock
  /\ NoWheel
  /\ NoFun
  /\ NoChroot
  /\ cur = NoMarkers
  /\ markersByKey = NoMarkers
  /\ ndeps = 0
  /\ collected = {}
  /\ final = <<>>
  /\ mpc = "merging"

\* _markers_by_requirement reads one dependency requirement string of the
\* output of a subprocess: key k, marker m or none
ReadRequirement(k, m) ==
  /\ mpc = "merging"
  /\ ndeps < MaxDeps
  /\ ndeps' = ndeps + 1
  /\ cur' = IF m = NoMarker THEN cur ELSE [cur EXCEPT ![k] = Add(@, m)]
  /\ collected' = IF m # NoMarker /\ k = DistKey THEN collected \cup {m} ELSE collected
  /\ UNCHANGED <<markersByKey, final, mpc>>
  /\ UNCHANGED notReq

\* merged takes the markers_by_req_key of one subprocess
MergeOutput ==
  /\ mpc = "merging"
  /\ markersByKey' = [k \in Keys |-> Update(markersByKey[k], cur[k])]
  /\ cur' = NoMarkers
  /\ UNCHANGED <<ndeps, collected, final, mpc>>
  /\ UNCHANGED notReq

\* every output is merged; to_requirement(dist)
ToRequirement ==
  /\ mpc = "merging"
  /\ cur = NoMarkers
  /\ final' = to_requirement(markersByKey[DistKey])
  /\ mpc' = "done"
  /\ UNCHANGED <<cur, markersByKey, ndeps, collected>>
  /\ UNCHANGED notReq

NextReq ==
  \/ \E k \in Keys, m \in Markers \cup {NoMarker} : ReadRequirement(k, m)
  \/ MergeOutput
  \/ ToRequirement

SpecReq == InitReq /\ [][NextReq]_vars

\* ------------------------------------------------------------------------
\* pex/cli/commands/lockfile/lockfile.py: Lockfile.create, Lockfile.select and
\* _RankedLock.rank
\*
\* A tag is a number; a target is the list target.get_supported_tags() gives,
\* most specific tag first. A platform tag is a number too: the i-th platform
\* tag in the lexicographic order of the strings. An artifact is what its file
\* name says: a source archive, a wheel with the tags its name expands to, or
\* a file of another kind.
\* ------------------------------------------------------------------------
NumTags == 2
NumPlatforms == 2
MaxArtifacts == 2
MaxLockArtifacts == 3
NumLockTargets == 2

Tags == 1..NumTags

\* the artifacts by their file names: a source archive, a file of another
\* kind, and the wheels by the tags their names expand to
Artifacts ==
  {[kind |-> "sdist", tags |-> {}], [kind |-> "other", tags |-> {}]}
    \cup {[kind |-> "whl", tags |-> ts] : ts \in (SUBSET Tags) \ {{}}}

\* the lists target.get_supported_tags() can give: no tag twice, at least one
SupportedTagLists ==
  {s \in UNION {[1..n -> Tags] : n \in 1..NumTags} :
     \A i, j \in DOMAIN s : i # j => s[i] # s[j]}

\* the lists of locked requirements that hold k artifacts in all; a locked
\* requirement is the list of its artifacts (iter_artifacts)
RECURSIVE RequirementLists(_)
RequirementLists(k) ==
  IF k = 0 THEN {<<>>}
  ELSE UNION {{<<r>> \o rest : r \in [1..j -> Artifacts], rest \in RequirementLists(k - j)} :
                j \in 1..k}

\* the locked resolves that hold k artifacts in all
LockedResolves(k) ==
  {[platform_tag |-> p, locked_requirements |-> rs] :
     p \in 1..NumPlatforms, rs \in RequirementLists(k)}

\* the lists of locked resolves that hold k artifacts in all
RECURSIVE ResolveLists(_)
ResolveLists(k) ==
  IF k = 0 THEN {<<>>}
  ELSE UNION {{<<r>> \o rest : r \in LockedResolves(j), rest \in ResolveLists(k - j)} :
                j \in 1..k}

None == <<>>

\* line 144: {tag: index for index, tag in enumerate(target.get_supported_tags())}
supported_tags(t) ==
  [tag \in {t[i] : i \in DOMAIN t} |-> (CHOOSE i \in DOMAIN t : t[i] = tag) - 1]

\* lines 57-61 and 67-71: requirement_rank = r if it is None else min(r, requirement_rank)
min_rank(r, requirement_rank) ==
  IF requirement_rank = None THEN <<r>>
  ELSE IF r < requirement_rank[1] THEN <<r>> ELSE requirement_rank

\* lines 64-66: the ranks of a wheel that pass `if wheel_rank:`, which is false
\* for a tag the dict does not have and for rank 0
wheel_ranks(artifact, tag_index) ==
  {tag_index[tag] : tag \in {tg \in artifact.tags \cap DOMAIN tag_index : tag_index[tg] # 0}}

\* lines 48-71: one artifact of the loop, folding a wheel's tags into the minimum
RECURSIVE fold_ranks(_, _)
fold_ranks(ranks, requirement_rank) ==
  IF ranks = {} THEN requirement_rank
  ELSE LET r == CHOOSE x \in ranks : TRUE
       IN fold_ranks(ranks \ {r}, min_rank(r, requirement_rank))

\* a faulty variant: a source archive is not ranked
artifact_rank_no_sdist(artifact, tag_index, requirement_rank) ==
  IF artifact.kind = "whl"
  THEN fold_ranks(wheel_ranks(artifact, tag_index), requirement_rank)
  ELSE requirement_rank

artifact_rank(artifact, tag_index, requirement_rank) ==
  IF artifact.kind = "sdist"
  THEN min_rank(Cardinality(DOMAIN tag_index), requirement_rank)
  ELSE IF artifact.kind = "whl"
  THEN fold_ranks(wheel_ranks(artifact, tag_index), requirement_rank)
  ELSE requirement_rank

\* lines 46-71: the loop over locked_requirement.iter_artifacts()
RECURSIVE requirement_rank_of(_, _, _)
requirement_rank_of(artifacts, tag_index, requirement_rank) ==
  IF artifacts = <<>> THEN requirement_rank
  ELSE requirement_rank_of(Tail(artifacts), tag_index,
                           artifact_rank(Head(artifacts), tag_index, requirement_rank))

\* lines 44-78: the loop over locked_resolve.locked_requirements
RECURSIVE resolve_rank_of(_, _, _)
resolve_rank_of(requirements, tag_index, resolve_rank) ==
  IF requirements = <<>> THEN resolve_rank
  ELSE LET requirement_rank == requirement_rank_of(Head(requirements), tag_index, None)
       IN IF requirement_rank = None THEN None
          ELSE resolve_rank_of(Tail(requirements), tag_index,
                               IF resolve_rank = None THEN requirement_rank
                               ELSE <<resolve_rank[1] + requirement_rank[1]>>)

\* a faulty variant: resolve_rank starts at 0, so a resolve without locked
\* requirements gets to the division
rank_from_zero(locked_resolve, tag_index) ==
  LET resolve_rank == resolve_rank_of(locked_resolve.locked_requirements, tag_index, <<0>>)
  IN IF resolve_rank = None THEN None
     ELSE <<[average_requirement_rank |->
               <<resolve_rank[1], Len(locked_resolve.locked_requirements)>>,
             locked_resolve |-> locked_resolve]>>

\* _RankedLock.rank: None (the empty list) or the one _RankedLock; the float
\* average_requirement_rank is kept as the pair <<sum, number of requirements>>
rank(locked_resolve, tag_index) ==
  LET resolve_rank == resolve_rank_of(locked_resolve.locked_requirements, tag_index, None)
  IN IF resolve_rank = None THEN None
     ELSE <<[average_requirement_rank |->
               <<resolve_rank[1], Len(locked_resolve.locked_requirements)>>,
             locked_resolve |-> locked_resolve]>>

\* the order of _RankedLock (attr.s): by average_requirement_rank, then by the
\* locked resolve, whose first field is the platform tag
AverageLess(a, b) == a[1] * b[2] < b[1] * a[2]
AverageEqual(a, b) == a[1] * b[2] = b[1] * a[2]
RankedBefore(a, b) ==
  \/ AverageLess(a.average_requirement_rank, b.average_requirement_rank)
  \/ /\ AverageEqual(a.average_requirement_rank, b.average_requirement_rank)
     /\ a.locked_resolve.platform_tag < b.locked_resolve.platform_tag

\* lines 145-148: the ranked locks of the lock file for one target
RECURSIVE ranked_locks(_, _)
ranked_locks(resolves, tag_index) ==
  IF resolves = <<>> THEN <<>>
  ELSE rank(Head(resolves), tag_index) \o ranked_locks(Tail(resolves), tag_index)

\* Lockfile._select: the values it can return, None or a locked resolve; two
\* ranked locks equal in rank and platform tag are ordered by the rest of the
\* locked resolve
_select(resolves, t) ==
  LET ranked == ranked_locks(resolves, supported_tags(t))
  IN IF ranked = <<>> THEN {None}
     ELSE {<<ranked[i].locked_resolve>> : i \in
             {i \in DOMAIN ranked : \A j \in DOMAIN ranked : ~RankedBefore(ranked[j], ranked[i])}}

\* SortedTuple(locked_resolves): the orders of the list that are sorted by
\* platform tag
SortedTuples(resolves) ==
  {[i \in DOMAIN resolves |-> resolves[f[i]]] :
     f \in {g \in [DOMAIN resolves -> DOMAIN resolves] :
              /\ \A i, j \in DOMAIN resolves : i # j => g[i] # g[j]
              /\ \A i, j \in DOMAIN resolves :
                   i < j => resolves[g[i]].platform_tag <= resolves[g[j]].platform_tag}}

\* one locked resolve, which may have no locked requirement, and one target
InitRank ==
  /\ source = FALSE
  /\ InitAD
  /\ InitSlot
  /\ NoPath
  /\ NoPipe
  /\ NoReq
  /\ NoWheel
  /\ NoFun
  /\ NoChroot
  /\ locked_resolves \in {<<r>> : r \in UNION {LockedResolves(k) : k \in 0..MaxArtifacts}}
  /\ sel_targets \in [1..1 -> SupportedTagLists]
  /\ lpc = "create"
  /\ lockfile = <<>>
  /\ lnext = 1
  /\ selected = <<>>

\* a list of locked resolves and the targets of one Lockfile.select
InitLock ==
  /\ source = FALSE
  /\ InitAD
  /\ InitSlot
  /\ NoPath
  /\ NoPipe
  /\ NoReq
  /\ NoWheel
  /\ NoFun
  /\ NoChroot
  /\ locked_resolves \in UNION {ResolveLists(k) : k \in 1..MaxLockArtifacts}
  /\ sel_targets \in [1..NumLockTargets -> SupportedTagLists]
  /\ lpc = "create"
  /\ lockfile = <<>>
  /\ lnext = 1
  /\ selected = <<>>

\* Lockfile.create (lines 92-116)
Create ==
  /\ lpc = "create"
  /\ lockfile' \in SortedTuples(locked_resolves)
  /\ lpc' = "select"
  /\ UNCHANGED <<locked_resolves, sel_targets, lnext, selected>>
  /\ UNCHANGED notLock

\* Lockfile.select (lines 128-138): one target of the loop
Select ==
  /\ lpc = "select"
  /\ lnext <= Len(sel_targets)
  /\ \E lock \in _select(lockfile, sel_targets[lnext]) :
       selected' = IF lock # None THEN Append(selected, <<lnext, lock[1]>>) ELSE selected
  /\ lnext' = lnext + 1
  /\ UNCHANGED <<locked_resolves, lockfile, sel_targets, lpc>>
  /\ UNCHANGED notLock

\* Lockfile.select: the loop is over
Selected ==
  /\ lpc = "select"
  /\ lnext > Len(sel_targets)
  /\ lpc' = "done"
  /\ UNCHANGED <<locked_resolves, lockfile, sel_targets, lnext, selected>>
  /\ UNCHANGED notLock

NextLock ==
  \/ Create
  \/ Select
  \/ Selected

SpecRank == InitRank /\ [][NextLock]_vars
SpecLock == InitLock /\ [][NextLock]_vars

\* ------------------------------------------------------------------------
\* pex/pep_427.py: install_wheel as install_wheel_chroot calls it
\*
\* A path is the list of its components below the destination, the last one
\* the file's extension ("" when it has none). A file is a record [content,
\* mode]: its lines and its permission bits.
\* ------------------------------------------------------------------------
NumScripts == 2

ScriptNames == {"s" \o ToString(i) : i \in 1..NumScripts}
wheel_metadata_dir == "d.dist-info"
data_rel_path == "d.data"
record_relpath == <<wheel_metadata_dir, "RECORD", "">>

\* InstallPaths.chroot, with CHROOT_STASH = ".prefix"; the destination itself
\* is the empty path
install_paths ==
  [purelib |-> <<>>,
   platlib |-> <<>>,
   headers |-> <<".prefix", "include", "site", "pythonX.Y", "d">>,
   scripts |-> <<".prefix", "bin">>,
   data |-> <<".prefix">>]

\* the zf.namelist() a wheel can have: the entries every wheel has and any
\* of those it may have, among them a script named like the entry point s1
Namelists ==
  LET required == {<<wheel_metadata_dir, "METADATA", "">>, <<wheel_metadata_dir, "WHEEL", "">>}
      optional ==
        {record_relpath, <<"pkg", "mod", ".py">>, <<"pkg", "mod", ".pyc">>,
         <<data_rel_path, "data", "f", "">>, <<data_rel_path, "headers", "h", ".h">>,
         <<data_rel_path, "scripts", "s1", "">>}
  IN {required \cup o : o \in SUBSET optional}

\* sorted(names): the names of S in the order sorted() gives them
sorted(S) ==
  LET all ==
        <<<<data_rel_path, "data", "f", "">>, <<data_rel_path, "headers", "h", ".h">>,
          <<data_rel_path, "scripts", "s1", "">>,
          <<wheel_metadata_dir, "METADATA", "">>, record_relpath,
          <<wheel_metadata_dir, "WHEEL", "">>,
          <<"pkg", "mod", ".py">>, <<"pkg", "mod", ".pyc">>>>
  IN SelectSeq(all, LAMBDA n : n \in S)

is_pyc_file(name) == name[Len(name)] = ".pyc"

\* the mode of a file open() or the zip extraction creates: 0666 & ~umask
Umasks == {{"gw", "ow"}, {"gr", "gw", "or", "ow"}}
NewMode(mask) == {"ur", "uw", "gr", "gw", "or", "ow"} \ mask

\* common.chmod_plus_x: x for every class that has r
chmod_plus_x(mode) ==
  mode \cup (IF "ur" \in mode THEN {"ux"} ELSE {})
       \cup (IF "gr" \in mode THEN {"gx"} ELSE {})
       \cup (IF "or" \in mode THEN {"ox"} ELSE {})

\* InstalledWheel.create_installed_file: the row of a file, with the hash and
\* the size of what the file holds when the row is made
create_installed_file(p, fsys) ==
  [path |-> p, hash |-> <<"sha256", fsys[p].content>>, size |-> <<Len(fsys[p].content)>>]

\* record_files (lines 176-193) over the sorted names, given below root_dir;
\* st is the pair [fs, installed_files]
RECURSIVE record_files(_, _, _)
record_files(root_dir, sorted_names, st) ==
  IF sorted_names = <<>> THEN st
  ELSE LET name == Head(sorted_names)
           file_abspath == root_dir \o name
           next ==
             IF is_pyc_file(name) THEN st
             ELSE IF record_relpath = name
             THEN [st EXCEPT !.fs = [p \in DOMAIN st.fs \ {file_abspath} |-> st.fs[p]]]
             ELSE [st EXCEPT !.installed_files =
                     Append(st.installed_files, create_installed_file(file_abspath, st.fs))]
       IN record_files(root_dir, Tail(sorted_names), next)

\* lines 209-227: one entry of the data directory: copytree to its install
\* path, then record_files over what was copied
install_data_entry(ns, entry, st) ==
  LET dest_dir == install_paths[entry]
      RelPath(n) == SubSeq(n, 3, Len(n))
      copied == sorted({n \in ns : n[1] = data_rel_path /\ n[2] = entry})
      copies == {dest_dir \o RelPath(copied[i]) : i \in DOMAIN copied}
      from(p) == CHOOSE n \in {copied[i] : i \in DOMAIN copied} : dest_dir \o RelPath(n) = p
      fs1 == [p \in DOMAIN st.fs \cup copies |->
                IF p \in copies THEN st.fs[from(p)] ELSE st.fs[p]]
  IN record_files(dest_dir, [i \in DOMAIN copied |-> RelPath(copied[i])],
                  [st EXCEPT !.fs = fs1])

RECURSIVE install_data(_, _, _)
install_data(ns, entries, st) ==
  IF entries = <<>> THEN st
  ELSE install_data(ns, Tail(entries), install_data_entry(ns, Head(entries), st))

\* a faulty variant: the script names the interpreter that runs the install
shebang_sys_executable(interpreter) == "#!/usr/bin/python3"

\* line 283: interpreter.shebang() if interpreter else "#!python"
shebang(interpreter) ==
  IF interpreter # None THEN "#!" \o interpreter[1] ELSE "#!python"

\* lines 263-285: the script of an entry point after dedent and format
Script(interpreter, object_ref) ==
  <<shebang(interpreter),
    "# -*- coding: utf-8 -*-",
    "import importlib",
    "import sys",
    "",
    "object_ref = \"" \o object_ref \o "\"",
    "modname, qualname_separator, qualname = object_ref.partition(':')",
    "entry_point = importlib.import_module(modname)",
    "if qualname_separator:",
    "    for attr in qualname.split('.'):",
    "        entry_point = getattr(entry_point, attr)",
    "",
    "if __name__ == '__main__':",
    "    sys.exit(entry_point())">>

\* lines 261-290: one entry point: safe_open(script_abspath, "w") keeps the
\* mode of a file that is there, the script is written, made executable and
\* its row appended
write_script(entry_point, interpreter, mask, st) ==
  LET script_abspath == install_paths.scripts \o <<entry_point[2], "">>
      mode == IF script_abspath \in DOMAIN st.fs THEN st.fs[script_abspath].mode
              ELSE NewMode(mask)
      file == [content |-> Script(interpreter, entry_point[2] \o " = " \o entry_point[1]),
               mode |-> chmod_plus_x(mode)]
      fs1 == [p \in DOMAIN st.fs \cup {script_abspath} |->
                IF p = script_abspath THEN file ELSE st.fs[p]]
  IN [fs |-> fs1,
      installed_files |-> Append(st.installed_files, create_installed_file(script_abspath, fs1))]

RECURSIVE write_scripts(_, _, _, _)
write_scripts(entry_points, interpreter, mask, st) ==
  IF entry_points = <<>> THEN st
  ELSE write_scripts(Tail(entry_points), interpreter, mask,
                     write_script(Head(entry_points), interpreter, mask, st))

\* safe_open(path, "w") and a write, or touch: the file with these lines
WithFile(fsys, p, lines, mask) ==
  [q \in DOMAIN fsys \cup {p} |->
     IF q = p
     THEN [content |-> lines,
           mode |-> IF p \in DOMAIN fsys THEN fsys[p].mode ELSE NewMode(mask)]
     ELSE fsys[q]]

InitWheel ==
  /\ source = FALSE
  /\ InitAD
  /\ InitSlot
  /\ NoPath
  /\ NoPipe
  /\ NoReq
  /\ NoLock
  /\ NoFun
  /\ NoChroot
  /\ names \in Namelists
  /\ console \in SUBSET ScriptNames
  /\ gui \in SUBSET ScriptNames
  /\ requested \in BOOLEAN
  /\ compile \in BOOLEAN
  /\ umask \in Umasks
  /\ fs = <<>>
  /\ installed_files = <<>>
  /\ record = <<>>
  /\ wpc = "extract"

\* lines 195-228: the wheel is extracted, its files are recorded, the entries
\* of the data directory (sorted(os.listdir(data_path))) are spread over the
\* install paths and the data directory is removed (shutil.rmtree)
Extract ==
  /\ wpc = "extract"
  /\ LET fs0 == [n \in names |->
                   [content |-> <<"contents of " \o n[Len(n) - 1]>>, mode |-> NewMode(umask)]]
         st0 == record_files(<<>>, sorted({n \in names : n[1] # data_rel_path}),
                             [fs |-> fs0, installed_files |-> <<>>])
         entries == SelectSeq(<<"data", "headers", "scripts">>,
                              LAMBDA e : \E n \in names : n[1] = data_rel_path /\ n[2] = e)
         st1 == install_data(names, entries, st0)
     IN /\ fs' = [p \in {q \in DOMAIN st1.fs : q[1] # data_rel_path} |-> st1.fs[p]]
        /\ installed_files' = st1.installed_files
  /\ wpc' = IF compile THEN "compile" ELSE "scripts"
  /\ UNCHANGED <<names, console, gui, requested, compile, umask, record>>
  /\ UNCHANGED notWheel

\* lines 230-255: compileall over the recorded .py files; every .pyc found
\* is recorded without hash and size
Compile ==
  /\ wpc = "compile"
  /\ LET py_files == {installed_files[i].path : i \in
                        {i \in DOMAIN installed_files :
                           installed_files[i].path[Len(installed_files[i].path)] = ".py"}}
         compiled == {[p EXCEPT ![Len(p)] = ".pyc"] : p \in py_files}
         fs1 == [p \in DOMAIN fs \cup compiled |->
                   IF p \in compiled
                   THEN [content |-> <<"bytecode">>, mode |-> NewMode(umask)]
                   ELSE fs[p]]
         found == IF py_files = {} THEN <<>>
                  ELSE sorted({n \in DOMAIN fs1 : is_pyc_file(n)})
     IN /\ fs' = fs1
        /\ installed_files' =
             installed_files \o [i \in DOMAIN found |->
                                   [path |-> found[i], hash |-> None, size |-> None]]
  /\ wpc' = "scripts"
  /\ UNCHANGED <<names, console, gui, requested, compile, umask, record>>
  /\ UNCHANGED notWheel

\* lines 257-290: the script of every console_scripts and gui_scripts entry
\* point, console_scripts first; an entry point is <<group, name>>;
\* install_wheel_chroot passes no interpreter
WriteScripts ==
  /\ wpc = "scripts"
  /\ LET entry_points ==
           SelectSeq([i \in 1..NumScripts |-> <<"console_scripts", "s" \o ToString(i)>>],
                     LAMBDA e : e[2] \in console)
             \o SelectSeq([i \in 1..NumScripts |-> <<"gui_scripts", "s" \o ToString(i)>>],
                          LAMBDA e : e[2] \in gui)
         st == write_scripts(entry_points, None, umask,
                             [fs |-> fs, installed_files |-> installed_files])
     IN /\ fs' = st.fs
        /\ installed_files' = st.installed_files
  /\ wpc' = "record"
  /\ UNCHANGED <<names, console, gui, requested, compile, umask, record>>
  /\ UNCHANGED notWheel

\* lines 292-304: INSTALLER, REQUESTED when requested, and the new RECORD;
\* Record.write writes one row for every element of installed_files
WriteRecord ==
  /\ wpc = "record"
  /\ LET installer == <<wheel_metadata_dir, "INSTALLER", "">>
         requested_path == <<wheel_metadata_dir, "REQUESTED", "">>
         fs1 == WithFile(fs, installer, <<"pex">>, umask)
         rows1 == Append(installed_files, create_installed_file(installer, fs1))
         fs2 == IF requested THEN WithFile(fs1, requested_path, <<>>, umask) ELSE fs1
         rows2 == IF requested
                  THEN Append(rows1, create_installed_file(requested_path, fs2))
                  ELSE rows1
         rows3 == Append(rows2, [path |-> record_relpath, hash |-> None, size |-> None])
     IN /\ installed_files' = rows3
        /\ record' = rows3
        /\ fs' = WithFile(fs2, record_relpath, <<"RECORD">>, umask)
  /\ wpc' = "done"
  /\ UNCHANGED <<names, console, gui, requested, compile, umask>>
  /\ UNCHANGED notWheel

NextWheel ==
  \/ Extract
  \/ Compile
  \/ WriteScripts
  \/ WriteRecord

SpecWheel == InitWheel /\ [][NextWheel]_vars

\* ------------------------------------------------------------------------
\* Functions that keep no state (specification SpecFun): the call is chosen
\* with its arguments in InitFun and one action per function applies it
\* ------------------------------------------------------------------------
MaxUrls == 1          \* the longest --index / --find-links list, and how many urls there are
MaxEpochLen == 2      \* the longest value of SOURCE_DATE_EPOCH
MaxInterpreters == 1  \* the longest interpreters list, and how many interpreters there are
MaxPlatforms == 2     \* the longest platforms list

\* the lists of at most n elements of S
RECURSIVE ListsOf(_, _)
ListsOf(S, n) ==
  IF n = 0 THEN {<<>>}
  ELSE LET shorter == ListsOf(S, n - 1)
       IN shorter \cup {Append(l, x) : l \in {s \in shorter : Len(s) = n - 1}, x \in S}

\* an argument that is None or a list (a list l is <<l>>)
OptionalLists(S, n) == {None} \cup {<<l>> : l \in ListsOf(S, n)}

\* bool(x) of an argument that is None or a list
is_true(x) == x # None /\ x[1] # <<>>

\* a return statement and a raise statement
Returned(v) == <<[kind |-> "returned", value |-> v]>>
Raised(e) == <<[kind |-> "raised", value |-> e]>>

\* --- pex/resolve/resolve_options.py ---
\* the options the parser hands to configure: pex_repository is an attribute
\* only when register was called with include_pex_repository, and a string or
\* None then (a string s is <<s>>); indexes and find_links are None or lists
Options ==
  LET Urls == {<<"url", i>> : i \in 1..MaxUrls}
  IN {o \in [include_pex_repository : BOOLEAN,
             pex_repository : {None, <<"">>, <<"repo.pex">>},
             indexes : OptionalLists(Urls, MaxUrls),
             find_links : OptionalLists(Urls, MaxUrls),
             pypi : BOOLEAN,
             transitive : BOOLEAN] :
        ~o.include_pex_repository => o.pex_repository = None}

\* create_pip_configuration: the PipConfiguration of the options (its
\* resolver_version and network_configuration are copied from the options and
\* left out here, as are the deprecation warnings)
create_pip_configuration(options) ==
  [class |-> "PipConfiguration",
   indexes |-> Update(<<>>, (IF options.pypi THEN <<<<"PYPI">>>> ELSE <<>>)
                            \o (IF is_true(options.indexes) THEN options.indexes[1] ELSE <<>>)),
   find_links |-> Update(<<>>, IF is_true(options.find_links)
                                 THEN options.find_links[1] ELSE <<>>),
   transitive |-> options.transitive]

\* a faulty variant: only --index is taken to conflict with --pex-repository
configure_indexes_only(options) ==
  LET pex_repository == IF options.include_pex_repository
                          THEN options.pex_repository ELSE None
      given == pex_repository \notin {None, <<"">>}
  IN IF given /\ is_true(options.indexes)
       THEN Raised("InvalidConfigurationError")
     ELSE IF given
       THEN Returned([class |-> "PexRepositoryConfiguration",
                      pex_repository |-> pex_repository[1],
                      transitive |-> options.transitive])
     ELSE Returned(create_pip_configuration(options))

\* configure
configure(options) ==
  LET pex_repository == IF options.include_pex_repository
                          THEN options.pex_repository ELSE None
      given == pex_repository \notin {None, <<"">>}   \* bool(pex_repository)
  IN IF given /\ (is_true(options.indexes) \/ is_true(options.find_links))
       THEN Raised("InvalidConfigurationError")
     ELSE IF given
       THEN Returned([class |-> "PexRepositoryConfiguration",
                      pex_repository |-> pex_repository[1],
                      transitive |-> options.transitive])
     ELSE Returned(create_pip_configuration(options))

\* --- pex/common.py, deterministic_datetime ---
\* int(s) of a string s, a list of characters: its value when all of them are
\* decimal digits, ValueError when not
RECURSIVE int(_)
int(s) ==
  IF s = <<>> \/ \E i \in DOMAIN s : s[i] \notin {"0", "1"}
    THEN Raised("ValueError")
  ELSE IF Len(s) = 1 THEN Returned(IF s[1] = "1" THEN 1 ELSE 0)
  ELSE Returned(10 * int(SubSeq(s, 1, Len(s) - 1))[1].value
                + (IF s[Len(s)] = "1" THEN 1 ELSE 0))

\* datetime.utcfromtimestamp(n), for a timestamp within 1970-01-01
utcfromtimestamp(n) ==
  [year |-> 1970, month |-> 1, day |-> 1, hour |-> n \div 3600,
   minute |-> (n % 3600) \div 60, second |-> n % 60, microsecond |-> 0]

\* deterministic_datetime; environ is os.environ at 'SOURCE_DATE_EPOCH'
deterministic_datetime(environ) ==
  IF environ # None
    THEN LET n == int(environ[1])
         IN IF n[1].kind = "raised" THEN n ELSE Returned(utcfromtimestamp(n[1].value))
  ELSE Returned([year |-> 1980, month |-> 1, day |-> 1, hour |-> 0,
                 minute |-> 0, second |-> 0, microsecond |-> 0])

\* --- pex/resolver.py, resolve_multi ---
\* a platform argument is None or a string s, as <<s>>
\* a faulty variant: 'current' is parsed as any other platform string
parsed_platform_no_current(platform) ==
  IF platform \notin {None, <<"">>} THEN <<"Platform", platform[1]>> ELSE None

\* parsed_platform; Platform.create(s) is <<"Platform", s>>
parsed_platform(platform) ==
  IF platform \notin {None, <<"">>} /\ platform # <<"current">>
    THEN <<"Platform", platform[1]>>
  ELSE None

\* list(iter_targets()) in resolve_multi: the targets handed to ResolveRequest
iter_targets(interpreters, platforms) ==
  LET parsed_platforms ==
        IF is_true(platforms)
          THEN [i \in DOMAIN platforms[1] |-> parsed_platform(platforms[1][i])]
        ELSE <<>>
      for_platform(platform) == [interpreter |-> None, platform |-> platform]
      for_interpreter(interpreter) == [interpreter |-> <<interpreter>>, platform |-> None]
      yielded(platform) == platform # None \/ ~is_true(interpreters)
      of_platforms == SelectSeq(parsed_platforms, yielded)
  IN IF ~is_true(interpreters) /\ parsed_platforms = <<>>
       THEN <<[interpreter |-> None, platform |-> None]>>   \* DistributionTarget.current()
     ELSE (IF is_true(interpreters)
             THEN [i \in DOMAIN interpreters[1] |-> for_interpreter(interpreters[1][i])]
           ELSE <<>>)
          \o [i \in DOMAIN of_platforms |-> for_platform(of_platforms[i])]

\* --- pex/resolver.py, the cache slots of BuildResult and InstallResult ---
\* the names used for path components, fingerprints and target ids
Names == {"a", "b"}

\* os.path.join of relative components: an empty component adds nothing
join(parts) == SelectSeq(parts, LAMBDA c : c # "")

\* a BuildRequest, with what os.path.isfile says of its source_path; a path is
\* <<dirname, basename>>, its basename empty when it ends with a separator
BuildRequests ==
  {b \in [target : [id : Names], source_path : Names \X (Names \cup {""}),
          isfile : BOOLEAN, fingerprint : Names] :
     b.source_path[2] = "" => ~b.isfile}

\* an InstallRequest
InstallRequests ==
  [target : [id : Names], wheel_path : Names \X {"p.whl", "q.whl"}, fingerprint : Names]

\* a faulty variant: one slot for every target
BuildResult_from_request_any_target(build_request, dist_root) ==
  LET dist_dir == join(<<dist_root,
                         IF build_request.isfile THEN "sdists" ELSE "local_projects",
                         build_request.source_path[2],
                         build_request.fingerprint>>)
  IN [request |-> build_request, atomic_dir |-> [target_dir |-> dist_dir]]

\* BuildResult.from_request; the work_dir of its atomic_dir is for_target_dir's
BuildResult_from_request(build_request, dist_root) ==
  LET dist_dir == join(<<dist_root,
                         IF build_request.isfile THEN "sdists" ELSE "local_projects",
                         build_request.source_path[2],
                         build_request.fingerprint,
                         build_request.target.id>>)
  IN [request |-> build_request, atomic_dir |-> [target_dir |-> dist_dir]]

\* InstallResult.from_request; wheel_file is the basename of wheel_path
InstallResult_from_request(install_request, installation_root) ==
  LET install_dir == join(<<installation_root,
                            install_request.fingerprint,
                            install_request.wheel_path[2]>>)
  IN [request |-> install_request, atomic_dir |-> [target_dir |-> install_dir]]

\* --- pex/atomic_directory.py, atomic_directory with no other process ---
\* os.path.split: <<head, tail>>, the head without its trailing separators
\* unless it is separators only
split(p) ==
  LET i == LastSep(p)
      head_ == SubSeq(p, 1, i)
      named == {k \in 1..i : head_[k] # Sep}
  IN <<IF named = {} THEN head_
       ELSE SubSeq(head_, 1, CHOOSE k \in named : \A j \in named : j <= k),
       SubSeq(p, i + 1, Len(p))>>

\* the lock file of target_dir, lines 111 and 118
lock_file_of(target_dir) ==
  LET head_ == split(target_dir)[1]
      tail == split(target_dir)[2]
  IN (IF head_ = <<>> \/ head_[Len(head_)] = Sep THEN head_ ELSE Append(head_, Sep))
     \o <<".">> \o (IF tail # <<>> THEN tail ELSE <<"here">>)
     \o <<".atomic_directory.lck">>

\* os.path.exists(p) on a disk, the set of its directory entries
exists(disk, p) == Components(p) = <<>> \/ Components(p) \in disk

\* one process going through atomic_directory(target_dir) on an empty disk,
\* its enclosed block populating the work_dir and returning, or raising an
\* Exception: the handle it was given, the lock file it opened, the disk when
\* the block was entered and the disk when atomic_directory is left
atomic_directory(target_dir, block) ==
  LET work_dir == work_dir_of(target_dir)
      head_ == split(target_dir)[1]
      lock == lock_file_of(target_dir)
      \* safe_mkdir(head): os.makedirs makes head and what is above it
      made_head == IF head_ # <<>>
                     THEN {SubSeq(Components(head_), 1, n) : n \in 1..Len(Components(head_))}
                   ELSE {}
      locked == made_head \cup {Components(lock)}
      working == locked \cup {Components(work_dir)}
  IN IF exists({}, target_dir)
       THEN Returned([handle |-> "finalized", lock_file |-> None,
                      entered |-> {}, left |-> {}])
     ELSE IF exists(locked, target_dir)
       THEN Returned([handle |-> "finalized", lock_file |-> <<lock>>,
                      entered |-> locked, left |-> locked])
     ELSE IF exists(locked, work_dir)
       THEN Raised("FileExistsError")
     ELSE Returned([handle |-> "work_dir", lock_file |-> <<lock>>,
                    entered |-> working,
                    left |-> IF block = "returns"
                               THEN (working \ {Components(work_dir)})
                                    \cup {Components(target_dir)}
                             ELSE working \ {Components(work_dir)}])

\* the call that is made, with its arguments
InitFun ==
  /\ source = FALSE
  /\ InitAD
  /\ InitSlot
  /\ NoPath
  /\ NoPipe
  /\ NoReq
  /\ NoLock
  /\ NoWheel
  /\ NoChroot
  /\ ret = <<>>
  /\ \/ callee = "configure" /\ args \in Options
     \* SOURCE_DATE_EPOCH is unset or a string
     \/ callee = "deterministic_datetime"
        /\ args \in OptionalLists({"0", "1", "x"}, MaxEpochLen)
     \/ callee = "iter_targets"
        /\ args \in [interpreters :
                       OptionalLists({<<"python", i>> : i \in 1..MaxInterpreters},
                                     MaxInterpreters),
                     platforms :
                       OptionalLists({None, <<"">>, <<"current">>,
                                      <<"linux-x86_64-cp-37-m">>}, MaxPlatforms)]
     \/ callee = "BuildResult.from_request" /\ args \in BuildRequests \X BuildRequests
     \/ callee = "InstallResult.from_request" /\ args \in InstallRequests \X InstallRequests
     \/ callee = "atomic_directory"
        /\ args \in [target_dir : Paths, block : {"returns", "raises"}]

\* the call of f ends with r
Call(f, r) ==
  /\ callee = f
  /\ ret = <<>>
  /\ ret' = r
  /\ UNCHANGED <<callee, args, notFun>>

Configure == Call("configure", configure(args))

DeterministicDatetime == Call("deterministic_datetime", deterministic_datetime(args))

IterTargets ==
  Call("iter_targets", Returned(iter_targets(args.interpreters, args.platforms)))

\* the slots of two BuildRequests below one dist_root
BuildFromRequest ==
  Call("BuildResult.from_request",
       Returned([i \in 1..2 |-> BuildResult_from_request(args[i], "built_wheels")]))

\* the slots of two InstallRequests below one installation_root
InstallFromRequest ==
  Call("InstallResult.from_request",
       Returned([i \in 1..2 |-> InstallResult_from_request(args[i], "installed_wheels")]))

AtomicDirectoryAlone ==
  Call("atomic_directory", atomic_directory(args.target_dir, args.block))

NextFun ==
  \/ Configure
  \/ DeterministicDatetime
  \/ IterTargets
  \/ BuildFromRequest
  \/ InstallFromRequest
  \/ AtomicDirectoryAlone

SpecFun == InitFun /\ [][NextFun]_vars

\* ------------------------------------------------------------------------
\* pex/common.py: one Chroot and the calls that add files to it
\* (specification SpecChroot)
\* ------------------------------------------------------------------------
NumLabels == 2   \* the number of labels beside label=None

Labels == {None} \cup {<<"label", i>> : i \in 1..NumLabels}

\* the dst arguments, as lists of path components; a leading "" is a leading
\* separator
Dsts == {<<"a">>, <<".", "a">>, <<"a", "..", "b">>, <<"..", "a">>, <<"", "a">>}

\* os.path.normpath
RECURSIVE normpath(_, _)
normpath(dst, done) ==
  IF dst = <<>> THEN (IF done = <<>> THEN <<".">> ELSE done)
  ELSE LET c == Head(dst)
           rest == Tail(dst)
       IN IF c = "." \/ (c = "" /\ done # <<>>) THEN normpath(rest, done)
          ELSE IF c = ".." /\ done = <<"">> THEN normpath(rest, done)
          ELSE IF c = ".." /\ done # <<>> /\ done[Len(done)] # ".."
            THEN normpath(rest, SubSeq(done, 1, Len(done) - 1))
          ELSE normpath(rest, Append(done, c))

\* Chroot._normalize
_normalize(dst) ==
  LET normal == normpath(dst, <<>>)
  IN IF normal[1] \in {"", ".."}
       THEN Raised("Error")
     ELSE Returned(normal)

\* the paths below the chroot
ChrootPaths ==
  {_normalize(dst)[1].value : dst \in {d \in Dsts : _normalize(d)[1].kind = "returned"}}

\* a faulty variant: a path is tagged whatever its tags are
_check_tag_never(fn, label) == FALSE

\* Chroot._check_tag: TRUE when it raises ChrootTaggingException
_check_tag(fn, label) ==
  \E fs_label \in DOMAIN filesets : fn \in filesets[fs_label] /\ fs_label # label

\* Chroot._tag, after its _check_tag: self.filesets[label].add(fn)
_tag(fn, label) == [filesets EXCEPT ![label] = @ \cup {fn}]

\* Chroot(chroot_base): no filesets, no files
InitChroot ==
  /\ source = FALSE
  /\ InitAD
  /\ InitSlot
  /\ NoPath
  /\ NoPipe
  /\ NoReq
  /\ NoLock
  /\ NoWheel
  /\ NoFun
  /\ filesets = [label \in Labels |-> {}]
  /\ chroot = [fn \in ChrootPaths |-> "absent"]
  /\ ccall = <<>>

\* one call of copy, link, write or touch: _normalize, then _tag, then the
\* file is made or the operating system fails the call. shutil.copy (copy)
\* and open with write (write) give chroot/dst new content; safe_copy with
\* overwrite=False (link) and touch leave a file that is there as it is
Tagged(op, dst, label) ==
  LET normal == _normalize(dst)
      fn == normal[1].value
      call(e) == <<[op |-> op, dst |-> dst, label |-> label, exc |-> e]>>
      file(old) == IF op = "copy" THEN "copied"
                   ELSE IF op = "write" THEN "written"
                   ELSE IF old # "absent" THEN old
                   ELSE IF op = "link" THEN "linked"
                   ELSE "empty"
  IN /\ filesets # <<>>
     /\ IF normal[1].kind = "raised"
          THEN ccall' = call("Error") /\ UNCHANGED <<filesets, chroot>>
        ELSE IF _check_tag(fn, label)
          THEN ccall' = call("ChrootTaggingException") /\ UNCHANGED <<filesets, chroot>>
        ELSE /\ filesets' = _tag(fn, label)
             /\ \/ chroot' = [chroot EXCEPT ![fn] = file(@)] /\ ccall' = call("none")
                \/ chroot' = chroot /\ ccall' = call("EnvironmentError")
     /\ UNCHANGED notChroot

\* Chroot.copy
Copy(dst, label) == Tagged("copy", dst, label)

\* Chroot.link
Link(dst, label) == Tagged("link", dst, label)

\* Chroot.write
Write(dst, label) == Tagged("write", dst, label)

\* Chroot.touch
Touch(dst, label) == Tagged("touch", dst, label)

NextChroot ==
  \E dst \in Dsts, label \in Labels :
    \/ Copy(dst, label)
    \/ Link(dst, label)
    \/ Write(dst, label)
    \/ Touch(dst, label)

SpecChroot == InitChroot /\ [][NextChroot]_vars

\* ------------------------------------------------------------------------
\* Properties of atomic_directory (specification Spec)
\* ------------------------------------------------------------------------
InBlockFinalized == {"yield_done", "yield_lost"}
BlockExceptions == {"Exception", "BaseException"}

TargetComplete ==
  target.exists => \E p \in Procs : blockOK[p] /\ promoted[p] /\ target = Produced(p)

C2_OnePopulator ==
  /\ \A p, q \in Procs : (pc[p] = "yield_work" /\ pc[q] = "yield_work") => p = q
  /\ \A p \in Procs : pc[p] = "yield_work" => (lockHolder = {p} /\ ~is_finalized)
  /\ \A q \in Procs : pc[q] \in InBlockFinalized => is_finalized

\* one process populates while another waits for the lock
C2_Witness ==
  \E p, q \in Procs :
    /\ pc[p] = "yield_work" /\ work.files # {}
    /\ pc[q] = "lock_ex"

\* the processes that found target_dir absent on entry and have returned
Raced == {p \in Procs : pc[p] = "done" /\ path[p] # "done"}

C4_RaisedBlockCleansUp ==
  [][\A p \in Procs :
       ( /\ pc[p] # "done" /\ pc'[p] = "done"
         /\ path[p] = "work"
         /\ exc'[p] \in BlockExceptions )
       => (~work'.exists /\ ~target'.exists /\ ~promoted'[p])]_vars

\* C5 (as claimed): whenever control is back with the caller the lock is
\* released and lock_fd is closed.
C5_LockReleasedOnExit ==
  \A p \in Procs : pc[p] = "done" => (~fd[p] /\ p \notin lockHolder)

\* C7: entering with target_dir present yields a finalized handle, and
\* neither that entry nor the exit of its block touches the parent, the lock
\* file, work_dir, target_dir, the lock or any file descriptor.
C7_FinalizedEntryIsFrame ==
  /\ [](\A p \in Procs : pc[p] = "yield_done" => is_finalized)
  /\ [][\A p \in Procs :
          ( /\ (pc[p] = "start" /\ is_finalized) \/ pc[p] = "yield_done"
            /\ pc'[p] # pc[p] )
          => /\ pc'[p] \in {"yield_done", "done", "dead"}
             /\ <<head, lockFile, target, work, lockHolder, fd>>'
                  = <<head, lockFile, target, work, lockHolder, fd>>]_vars

\* a process entered with target_dir present, its block raised, and it left
C7_Witness ==
  \E p \in Procs :
    /\ pc[p] = "done" /\ path[p] = "done" /\ exc[p] = "Exception"
    /\ ~fd[p] /\ is_finalized

\* C9 (as claimed): after a process died holding the lock, an entrant that
\* has the lock and saw target_dir absent finds nothing in the way of its
\* os.mkdir(work_dir).
C9_NoStaleStateAfterCrash ==
  ( /\ crashed
    /\ \A q \in Procs : exc[q] # "BaseException" )
  => \A p \in Procs : pc[p] = "mkdir_work" => ~work.exists

\* C10: a failing os.mkdir(work_dir) leaves atomic_directory at once with
\* that error: the block is not run, nothing is promoted, and work_dir and
\* target_dir are as they were.
C10_MkdirFailurePropagates ==
  /\ [][\A p \in Procs :
          (pc[p] = "mkdir_work" /\ pc'[p] \notin {"mkdir_work", "yield_work", "dead"})
          => /\ pc'[p] = "done"
             /\ exc'[p] \in {"FileExistsError:mkdir", "OSError:mkdir"}
             /\ work' = work /\ target' = target]_vars
  /\ [](\A p \in Procs :
          exc[p] \in {"FileExistsError:mkdir", "OSError:mkdir"}
          => /\ pc[p] \in {"done", "dead"}
             /\ path[p] = "none" /\ ~blockOK[p] /\ ~promoted[p])

\* os.mkdir found a work_dir left behind and the caller got FileExistsError
C10_Witness ==
  \E p \in Procs :
    /\ pc[p] = "done" /\ exc[p] = "FileExistsError:mkdir"
    /\ work.exists /\ ~target.exists

\* ------------------------------------------------------------------------
\* Properties of the resolver's slots (specification SpecSlot)
\* ------------------------------------------------------------------------
\* C6 (as claimed): a finalize whose rename found target_dir in the way
\* removes work_dir and returns without error.
C6_LostRenameCleansUp ==
  \A r \in Resolvers :
    rrename[r] \in RenameErrnos => (rexc[r] = "none" /\ ~rwork[r].exists)

\* C8 (as claimed): beside a finalized target_dir there is no work_dir of a
\* resolve that promoted, lost the race or found the slot finalized.
C8_NoWorkDirBesideTarget ==
  rtarget.exists => \A r \in Resolvers : rrename[r] # "none" => ~rwork[r].exists

\* ------------------------------------------------------------------------
\* Properties of the paths (specification SpecPath)
\* ------------------------------------------------------------------------
\* w and t name two different entries of one directory
Sibling(w, t) ==
  LET cw == Components(w)
      ct == Components(t)
  IN /\ ct # <<>>
     /\ Len(cw) = Len(ct)
     /\ SubSeq(cw, 1, Len(cw) - 1) = SubSeq(ct, 1, Len(ct) - 1)
     /\ cw[Len(cw)] # ct[Len(ct)]

\* C11 (as claimed): the work_dir of every AtomicDirectory is a sibling of
\* its target_dir, whatever string names the target directory (also one
\* that ends in a separator, whose tail is empty).
C11_WorkDirIsSibling ==
  (made # "none" /\ Components(tdir) # <<>>) => Sibling(wdir, tdir)

\* ------------------------------------------------------------------------
\* Properties of resolve_distributions (specification SpecPipe)
\* ------------------------------------------------------------------------

Range(f) == {f[i] : i \in DOMAIN f}

\* the subprocesses of stage st that this call has spawned, as log indices
SpawnsOf(st) == {i \in DOMAIN log : log[i][1] = st}

\* stage 3 of this call is over
Installed == stage \in {"requirements", "returned"}

\* the install chroots this call uses for wheel file f
ChrootsOf(f) == {r.distributions : r \in {x \in Range(to_calc) : x.distributions[2] = f}}

\* C12: within one call, for every wheel file at most one installer is
\* spawned, and once stage 3 is over exactly one install chroot is used for
\* it, to which every InstallRequest with that wheel file is attributed,
\* whatever its target and fingerprint.
C12_OneInstallPerWheelFile ==
  \A f \in {BuiltWheel, Wheel} :
    /\ Cardinality({i \in SpawnsOf("install") : log[i][2].wheel_file = f}) <= 1
    /\ (Installed /\ \E q \in Range(to_install) : q.wheel_file = f) =>
         /\ Cardinality(ChrootsOf(f)) = 1
         /\ \A q \in Range(to_install) :
              q.wheel_file = f =>
                \E r \in Range(to_calc) :
                  r.target = q.target /\ r.distributions \in ChrootsOf(f)

\* a call returned after installing a wheel file that two targets built
\* with different fingerprints
C12_Witness ==
  /\ stage = "returned"
  /\ \E i \in SpawnsOf("install") : log[i][2].wheel_file = BuiltWheel
  /\ \E q1, q2 \in Range(to_install) :
       /\ q1.wheel_file = BuiltWheel
       /\ q2.wheel_file = BuiltWheel
       /\ q1.fingerprint # q2.fingerprint

\* the subprocesses that have not exited or whose result is not yet taken
Live == running \cup {exited[k].job : k \in DOMAIN exited}

\* C13: while a subprocess of one stage is running or its result is not yet
\* taken, no subprocess of a later stage has been spawned, in every order in
\* which the subprocesses exit.
C13_StagesDoNotOverlap ==
  \A i \in DOMAIN log : \A j \in Live : StageNo(j[1]) >= StageNo(log[i][1])

\* an installer was spawned after two builds of which the one spawned
\* second exited first
C13_Witness ==
  /\ \E i \in SpawnsOf("install") : TRUE
  /\ Cardinality(SpawnsOf("build")) = NumTargets
  /\ \E a, b \in DOMAIN to_install :
       /\ a < b
       /\ to_install[a].wheel_file = BuiltWheel
       /\ to_install[b].wheel_file = BuiltWheel
       /\ to_install[a].target > to_install[b].target

\* C14: once a subprocess of stage 1, 2 or 3 has exited non-zero, the call
\* does not return and has no result, the error it raises is that stage's
\* (Unsatisfiable for stage 1, Untranslateable for stages 2 and 3), and no
\* subprocess of a later stage is spawned.
C14_FailureAborts ==
  \A st \in failures \cap {"resolve", "build", "install"} :
    /\ stage # "returned"
    /\ result = <<>>
    /\ stage = "raised" =>
         raised = (IF st = "resolve" THEN "Unsatisfiable" ELSE "Untranslateable")
    /\ \A i \in DOMAIN log : StageNo(log[i][1]) <= StageNo(st)

\* a call raised Unsatisfiable after a download exited non-zero while the
\* other one exited 0
C14_Witness ==
  /\ stage = "raised"
  /\ raised = "Unsatisfiable"
  /\ failures = {"resolve"}
  /\ Cardinality(SpawnsOf("resolve")) = NumTargets

C16_NothingToResolve ==
  ~reqs =>
    /\ log = <<>>
    /\ running = {}
    /\ stage \in {"start", "returned"}
    /\ result = <<>>

\* a call without requirements returned, on a cache an earlier call left
C16_Witness ==
  /\ ~reqs
  /\ stage = "returned"
  /\ prev # "none"

\* the slot of a filled work_dir is finalized
SlotFinalized(w) ==
  IF w[1] = "build" THEN w[2] \in builtSlots ELSE w[2] \in installedSlots

\* C17: when the call has raised out of stage 2 or 3, the slot of every
\* build or install job of the call that exited 0 is finalized.
C17_SuccessfulJobsAreFinalized ==
  (stage = "raised" /\ failures \cap {"build", "install"} # {}) =>
    \A w \in workDirs : SlotFinalized(w)

\* C18: after the call has returned or raised and its subprocesses are gone,
\* no work_dir is left in the cache.
C18_NoWorkDirLeft ==
  (stage \in {"returned", "raised"} /\ running = {}) =>
    workDirs \cup stale = {}

\* the introspection subprocesses spawned for target t over wheel file f
IntrospectionsOf(t, f) ==
  {i \in SpawnsOf("requirements") :
     log[i][2].target = t /\ log[i][2].distributions[2] = f}

\* C20 (as claimed): a call that returns has spawned exactly one
\* introspection subprocess per dedup group, that is per distinct wheel
\* file, however many targets or InstallRequests the group has.
C20_OneIntrospectionPerGroup ==
  stage = "returned" =>
    Cardinality(SpawnsOf("requirements"))
      = Cardinality({q.wheel_file : q \in Range(to_install)})

\* C20 (amended): a call that returns has spawned exactly one introspection
\* subprocess per InstallRequest, for that request's target and over the one
\* install chroot of the request's dedup group.
C20_OneIntrospectionPerRequest ==
  stage = "returned" =>
    /\ Cardinality(SpawnsOf("requirements")) = Len(to_install)
    /\ \A k \in DOMAIN to_install :
         /\ Cardinality(IntrospectionsOf(to_install[k].target,
                                         to_install[k].wheel_file)) = 1
         /\ \A i \in IntrospectionsOf(to_install[k].target, to_install[k].wheel_file) :
              log[i][2].distributions \in ChrootsOf(to_install[k].wheel_file)

\* a call returned after stage 4 ran for a dedup group of two InstallRequests
C20_Witness ==
  /\ stage = "returned"
  /\ \E a, b \in DOMAIN to_install :
       /\ a # b
       /\ to_install[a].wheel_file = to_install[b].wheel_file
  /\ SpawnsOf("requirements") # {}

\* the index at which distribution d is first seen in the input of stage 4
FirstSeen(d) ==
  CHOOSE i \in DOMAIN to_calc :
    /\ to_calc[i].distributions = d
    /\ \A j \in 1..(i - 1) : to_calc[j].distributions # d

C28_AtMostMaxJobsRunning ==
  \A st \in StageSet : Cardinality({j \in running : j[1] = st}) <= maxJobs

C28_Witness ==
  /\ stage \in StageSet
  /\ maxJobs < Len(inputs)
  /\ Cardinality(running) = maxJobs
  /\ nextIn <= Len(inputs)

\* ------------------------------------------------------------------------
\* Properties of DistributionRequirements (specification SpecReq)
\* ------------------------------------------------------------------------

\* the tokens of the final requirement after 'name==version;'
MarkerPart == SubSeq(final, Len(as_requirement) + 2, Len(final))

\* C19: with M the set of markers collected for the key of dist, the final
\* requirement is name==version when M is empty, name==version; m when
\* M = {m}, and otherwise name==version; (m1) and (m2) and ..., in which
\* every marker of M stands exactly once, each in parentheses.
C19_FinalRequirement ==
  mpc = "done" =>
    /\ collected = {} => final = <<DistKey, "==", "1.0">>
    /\ \A m \in collected :
         collected = {m} => final = <<DistKey, "==", "1.0", ";", m>>
    /\ Cardinality(collected) > 1 =>
         /\ SubSeq(final, 1, Len(as_requirement) + 1) = <<DistKey, "==", "1.0", ";">>
         /\ Len(MarkerPart) = 4 * Cardinality(collected) - 1
         /\ \A i \in DOMAIN MarkerPart :
              /\ i % 4 = 1 => MarkerPart[i] = "("
              /\ i % 4 = 2 => MarkerPart[i] \in collected
              /\ i % 4 = 3 => MarkerPart[i] = ")"
              /\ i % 4 = 0 => MarkerPart[i] = "and"
         /\ \A m \in collected :
              Cardinality({i \in DOMAIN MarkerPart : MarkerPart[i] = m}) = 1

\* the requirement of a distribution for which three requirement strings
\* brought two distinct markers, one of them twice
C19_Witness ==
  /\ mpc = "done"
  /\ ndeps = MaxDeps
  /\ Cardinality(collected) = 2
  /\ Len(final) > Len(as_requirement)

\* ------------------------------------------------------------------------
\* Properties of the lock selection (specifications SpecRank and SpecLock)
\* ------------------------------------------------------------------------
SetMin(S) == CHOOSE x \in S : \A y \in S : x <= y

\* the ranks the artifacts of a locked requirement have for target t: N for a
\* source archive, the index for every tag of a wheel that t supports
KnownRanks(req, t) ==
  {Len(t) : i \in {i \in DOMAIN req : req[i].kind = "sdist"}}
    \cup {i - 1 : i \in {i \in DOMAIN t :
                           \E k \in DOMAIN req : req[k].kind = "whl" /\ t[i] \in req[k].tags}}

\* every locked requirement has an artifact with a known rank
Rankable(r, t) ==
  /\ r.locked_requirements # <<>>
  /\ \A k \in DOMAIN r.locked_requirements : KnownRanks(r.locked_requirements[k], t) # {}

RECURSIVE SumOfRanks(_, _)
SumOfRanks(requirements, t) ==
  IF requirements = <<>> THEN 0
  ELSE SetMin(KnownRanks(Head(requirements), t)) + SumOfRanks(Tail(requirements), t)

\* the average requirement rank of a rankable resolve, as <<sum, number>>
AverageRank(r, t) == <<SumOfRanks(r.locked_requirements, t), Len(r.locked_requirements)>>

\* the targets Lockfile.select has gone through
Handled == 1..(lnext - 1)
SelectedFor(i) == {selected[k][2] : k \in {k \in DOMAIN selected : selected[k][1] = i}}

\* C22: for a target that some locked resolve of the lock file is rankable for,
\* the locked resolve selected is rankable, no rankable resolve has a smaller
\* average requirement rank (the sum of the requirement ranks over their
\* number), and none of equal rank has a smaller platform tag.
C22_SelectsBestRanked ==
  \A i \in Handled :
    LET t == sel_targets[i]
        rankable == {k \in DOMAIN lockfile : Rankable(lockfile[k], t)}
    IN rankable # {} =>
         \E s \in SelectedFor(i) :
           /\ Rankable(s, t)
           /\ \A k \in rankable :
                /\ ~AverageLess(AverageRank(lockfile[k], t), AverageRank(s, t))
                /\ AverageEqual(AverageRank(lockfile[k], t), AverageRank(s, t))
                     => s.platform_tag <= lockfile[k].platform_tag

\* C23: the rank _RankedLock.rank gives a locked requirement is the minimum,
\* over its artifacts, of N for a source archive and of the index in
\* supported_tags (0 to N-1) of every tag of a wheel that the target supports;
\* it is None when no artifact has such a rank.
C23_RankIsMinimumOverArtifacts ==
  lpc = "done" =>
    \A k \in DOMAIN lockfile : \A i \in DOMAIN sel_targets :
      \A q \in DOMAIN lockfile[k].locked_requirements :
        LET req == lockfile[k].locked_requirements[q]
            known == KnownRanks(req, sel_targets[i])
        IN requirement_rank_of(req, supported_tags(sel_targets[i]), None)
             = IF known = {} THEN None ELSE <<SetMin(known)>>

\* some artifact of some locked requirement of r has a tag the target supports
HasSupportedTag(r, t) ==
  \E q \in DOMAIN r.locked_requirements : \E a \in DOMAIN r.locked_requirements[q] :
    r.locked_requirements[q][a].tags \cap {t[i] : i \in DOMAIN t} # {}

\* C24: a locked resolve is ranked for a target (and so can be selected) exactly
\* when some artifact of some of its requirements has a tag the target supports.
C24_RankableIffSupportedTag ==
  lpc = "done" =>
    \A k \in DOMAIN lockfile : \A i \in DOMAIN sel_targets :
      (rank(lockfile[k], supported_tags(sel_targets[i])) # None)
        <=> HasSupportedTag(lockfile[k], sel_targets[i])

EverySdist(r) ==
  /\ r.locked_requirements # <<>>
  /\ \A q \in DOMAIN r.locked_requirements :
       \E a \in DOMAIN r.locked_requirements[q] : r.locked_requirements[q][a].kind = "sdist"

C38_EmptyResolveIsUnrankable ==
  lpc = "done" /\ lockfile[1].locked_requirements = <<>> =>
    /\ rank(lockfile[1], supported_tags(sel_targets[1])) = None
    /\ \A t \in SupportedTagLists :
         LET ranked == rank(lockfile[1], supported_tags(t))
         IN \A i \in DOMAIN ranked : ranked[i].average_requirement_rank[2] # 0
    /\ selected = <<>>

C38_Witness ==
  /\ lpc = "done"
  /\ lockfile[1].locked_requirements = <<>>
  /\ selected = <<>>

\* C26: Lockfile.select yields, in the order of the targets, one pair for each
\* target that some locked resolve is rankable for, and nothing for the others.
C26_OnePairPerRankableTarget ==
  lpc = "done" =>
    /\ \A k, l \in DOMAIN selected : k < l => selected[k][1] < selected[l][1]
    /\ {selected[k][1] : k \in DOMAIN selected}
         = {i \in DOMAIN sel_targets :
              \E k \in DOMAIN lockfile : Rankable(lockfile[k], sel_targets[i])}

\* C27: the Lockfile that Lockfile.create makes has no two locked resolves
\* with the same platform tag.
C27_PlatformTagsDiffer ==
  lpc # "create" =>
    \A i, j \in DOMAIN lockfile : i # j => lockfile[i].platform_tag # lockfile[j].platform_tag

\* ------------------------------------------------------------------------
\* Properties of install_wheel (specification SpecWheel)
\* ------------------------------------------------------------------------
ScriptPath(name) == install_paths.scripts \o <<name, "">>

RowsOf(p) == {i \in DOMAIN record : record[i].path = p}

\* C30: the RECORD install_wheel writes has exactly one row for every
\* installed file that is not a .pyc file, each with hash and size, and
\* exactly one row for RECORD itself, with neither; no row is for a file that
\* is not installed.
C30_OneRowPerInstalledFile ==
  wpc = "done" =>
    /\ \A p \in DOMAIN fs : ~is_pyc_file(p) => Cardinality(RowsOf(p)) = 1
    /\ \A i \in DOMAIN record : record[i].path \in DOMAIN fs
    /\ \A i \in DOMAIN record :
         ~is_pyc_file(record[i].path) =>
           IF record[i].path = record_relpath
           THEN record[i].hash = None /\ record[i].size = None
           ELSE record[i].hash # None /\ record[i].size # None

\* ------------------------------------------------------------------------
\* Properties of the functions that keep no state (specification SpecFun)
\* ------------------------------------------------------------------------
RepositoryGiven ==
  args.include_pex_repository /\ args.pex_repository \notin {None, <<"">>}

SourcesGiven == \E l \in {args.indexes, args.find_links} : l # None /\ Len(l[1]) > 0

\* C31: configure raises InvalidConfigurationError, and returns nothing, when
\* a pex repository is given together with indexes or find-links; with a pex
\* repository alone it returns a PexRepositoryConfiguration and without one a
\* PipConfiguration.
C31_RepositoryExcludesOtherSources ==
  callee = "configure" /\ ret # <<>> =>
    IF RepositoryGiven /\ SourcesGiven
      THEN ret[1].kind = "raised" /\ ret[1].value = "InvalidConfigurationError"
    ELSE /\ ret[1].kind = "returned"
         /\ ret[1].value.class = IF RepositoryGiven THEN "PexRepositoryConfiguration"
                                 ELSE "PipConfiguration"

C31_Witness ==
  /\ callee = "configure"
  /\ RepositoryGiven
  /\ ~is_true(args.indexes)
  /\ is_true(args.find_links)
  /\ ret # <<>>
  /\ ret[1].kind = "raised"

IsInteger(s) == s # <<>> /\ \A i \in DOMAIN s : s[i] \in {"0", "1"}

\* C32: deterministic_datetime returns the UTC time of SOURCE_DATE_EPOCH when
\* that is set to an integer and midnight 1980-01-01 in every other case.
C32_EpochOrMidnight1980 ==
  callee = "deterministic_datetime" /\ ret # <<>> =>
    /\ ret[1].kind = "returned"
    /\ ret[1].value =
         IF args # None /\ IsInteger(args[1])
           THEN utcfromtimestamp(int(args[1])[1].value)
         ELSE [year |-> 1980, month |-> 1, day |-> 1, hour |-> 0,
               minute |-> 0, second |-> 0, microsecond |-> 0]

\* the targets of a list of platform arguments, as the claim C40 has them
RECURSIVE PlatformTargets(_, _)
PlatformTargets(ps, withInterpreters) ==
  IF ps = <<>> THEN <<>>
  ELSE (IF Head(ps) \in {None, <<"current">>}
          THEN (IF withInterpreters THEN <<>>
                ELSE <<[interpreter |-> None, platform |-> None]>>)
        ELSE <<[interpreter |-> None, platform |-> <<"Platform", Head(ps)[1]>>]>>)
       \o PlatformTargets(Tail(ps), withInterpreters)

\* C40: resolve_multi resolves for at least one target: the current target
\* when neither interpreters nor platforms are given, else one target per
\* interpreter followed by one per platform, a platform of None or 'current'
\* giving a target only when no interpreters are given.
C40_AtLeastOneTarget ==
  callee = "iter_targets" /\ ret # <<>> =>
    LET targets == ret[1].value
        interpreters == IF args.interpreters = None THEN <<>> ELSE args.interpreters[1]
        platforms == IF args.platforms = None THEN <<>> ELSE args.platforms[1]
    IN /\ Len(targets) >= 1
       /\ (\A i \in DOMAIN platforms : platforms[i] # <<"">>) =>
            targets =
              IF interpreters = <<>> /\ platforms = <<>>
                THEN <<[interpreter |-> None, platform |-> None]>>
              ELSE [i \in DOMAIN interpreters |->
                      [interpreter |-> <<interpreters[i]>>, platform |-> None]]
                   \o PlatformTargets(platforms, interpreters # <<>>)

C40_Witness ==
  /\ callee = "iter_targets"
  /\ ret # <<>>
  /\ is_true(args.interpreters)
  /\ is_true(args.platforms)
  /\ args.platforms[1] = <<<<"current">>, <<"linux-x86_64-cp-37-m">>>>
  /\ Len(ret[1].value) = Len(args.interpreters[1]) + 1

\* C34: the slot of an InstallResult is a function of the fingerprint and the
\* file name of the wheel only; the slots of two BuildResults differ whenever
\* the kind of source (sdist or local project), its basename, its fingerprint
\* or target.id differ.
C34_SlotPaths ==
  LET slot(i) == ret[1].value[i].atomic_dir.target_dir
  IN /\ (/\ callee = "InstallResult.from_request"
          /\ ret # <<>>
          /\ args[1].fingerprint = args[2].fingerprint
          /\ args[1].wheel_path[2] = args[2].wheel_path[2])
        => slot(1) = slot(2)
     /\ (/\ callee = "BuildResult.from_request"
          /\ ret # <<>>
          /\ \/ args[1].isfile # args[2].isfile
             \/ args[1].source_path[2] # args[2].source_path[2]
             \/ args[1].fingerprint # args[2].fingerprint
             \/ args[1].target.id # args[2].target.id)
        => slot(1) # slot(2)

C34_Witness ==
  /\ callee = "BuildResult.from_request"
  /\ ret # <<>>
  /\ args[1].target.id # args[2].target.id
  /\ args[1].source_path = args[2].source_path
  /\ args[1].isfile = args[2].isfile
  /\ args[1].fingerprint = args[2].fingerprint
  /\ ret[1].value[1].atomic_dir.target_dir # ret[1].value[2].atomic_dir.target_dir

\* ------------------------------------------------------------------------
\* Properties of Chroot (specification SpecChroot)
\* ------------------------------------------------------------------------
\* the last call was for a path that had a label other than the call's
AlreadyTagged(sets, call) ==
  LET normal == _normalize(call.dst)
  IN /\ normal[1].kind = "returned"
     /\ \E l \in DOMAIN sets : l # call.label /\ normal[1].value \in sets[l]

\* C39: after any copy, link, write and touch calls every destination path is
\* in the fileset of at most one label, and a call for a path that has
\* another label raises ChrootTaggingException and changes no fileset and no
\* file of the chroot.
C39_OneLabelPerPath ==
  /\ [](\A l1, l2 \in DOMAIN filesets : l1 # l2 => filesets[l1] \cap filesets[l2] = {})
  /\ [][ccall' # <<>> /\ AlreadyTagged(filesets, ccall'[1]) =>
          /\ ccall'[1].exc = "ChrootTaggingException"
          /\ filesets' = filesets
          /\ chroot' = chroot]_vars

C39_Witness ==
  /\ ccall # <<>>
  /\ ccall[1].exc = "ChrootTaggingException"
  /\ ccall[1].dst = <<"a", "..", "b">>
  /\ \E l \in DOMAIN filesets : filesets[l] = {<<"a">>, <<"b">>}
  /\ chroot[<<"b">>] = "written"

\* the entry x lies below the directory d
Below(x, d) ==
  /\ Len(Components(d)) < Len(Components(x))
  /\ SubSeq(Components(x), 1, Len(Components(d))) = Components(d)

\* C33: the lock file of atomic_directory is .<tail>.atomic_directory.lck in
\* the parent of target_dir, with 'here' for an empty tail; it is never inside
\* target_dir or work_dir, and it is still there when the block has exited,
\* normally or not.
C33_LockFileInParent ==
  (/\ callee = "atomic_directory"
   /\ ret # <<>>
   /\ ret[1].kind = "returned"
   /\ ret[1].value.lock_file # None) =>
    LET lock == ret[1].value.lock_file[1]
        parent == split(args.target_dir)[1]
        tail == split(args.target_dir)[2]
    IN /\ Components(lock) =
            Append(Components(parent),
                   <<".">> \o (IF tail = <<>> THEN <<"here">> ELSE tail)
                   \o <<".atomic_directory.lck">>)
       /\ ~Below(lock, args.target_dir)
       /\ ~Below(lock, work_dir_of(args.target_dir))
       /\ Components(lock) \in ret[1].value.left

\* C36: for a target_dir that does not exist on entry, also one with an empty
\* tail, a process that enters alone is handed a handle that is not finalized
\* with a work_dir that was just made; a slot nothing was put into is never
\* reported finalized.
C36_FreshSlotIsNotFinalized ==
  (/\ callee = "atomic_directory"
   /\ ret # <<>>
   /\ ~exists({}, args.target_dir)) =>
    /\ ret[1].kind = "returned"
    /\ ret[1].value.handle = "work_dir"
    /\ Components(work_dir_of(args.target_dir)) \in ret[1].value.entered

\* ------------------------------------------------------------------------
\* Progress of atomic_directory (specification SpecFair)
\* ------------------------------------------------------------------------
\* C35: under fair scheduling, when every process that takes the lock leaves
\* its block or dies, every process that calls atomic_directory is in the end
\* handed a handle, a finalized one or, holding the lock, one with a fresh
\* work_dir, unless it dies itself; there is no deadlock.
C35_EveryCallerIsHandedAHandle ==
  \A p \in Procs : (pc[p] # "start") ~> (path[p] # "none" \/ pc[p] = "dead")

\* ------------------------------------------------------------------------
\* The order of completion in resolve_distributions (specification SpecPipe)
\* ------------------------------------------------------------------------
\* what a returned call returns when in every stage the subprocesses
\* complete in the order of their inputs: the chroot of the downloaded wheel
\* and the chroot of the wheel built for the first target with an sdist, a
\* target whose BuildResult slot was in the cache before one that was built
InOrderResult ==
  LET sdists == {t \in Targets : Sdist \in dists[t]}
      cached == {t \in sdists : \A i \in SpawnsOf("build") : log[i][2] # t}
      first == IF cached # {} THEN SetMin(cached) ELSE SetMin(sdists)
  IN (IF \E t \in Targets : Wheel \in dists[t]
        THEN {install_chroot(InstallRequest(1, Wheel))} ELSE {})
     \cup (IF sdists # {}
             THEN {install_chroot(InstallRequest(first, BuiltWheel))} ELSE {})

\* C37: for given inputs, cache and subprocess outputs, the set of resolved
\* distributions a call returns is the same for every order in which the
\* parallel jobs of its stages complete, also when two targets give wheels of
\* one name with different fingerprints: it is what the call returns when
\* the jobs complete in the order of their inputs.
C37_ResultIndependentOfCompletionOrder ==
  (stage = "returned" /\ reqs) => Range(result) = InOrderResult

====
